---- MODULE Spec2Model ----
(***************************************************************************)
(* A model of the Terra solar-system visualisation: the N-body physics     *)
(* engine (PhysicsEngine.js), the scene builder that fills its registry    *)
(* (SolarSystemBuilder.js), the procedural ship generator                  *)
(* (spaceshipFactory.js) and the frame loop and controls of main.js.       *)
(*                                                                         *)
(* Numbers.  JavaScript numbers are modelled in fixed point:               *)
(*   - lengths, positions and velocities in hundredths (PosScale),         *)
(*   - time in 1/3000 s (TimeScale per second),                            *)
(*   - the gravitational constant in thousandths (GScale),                 *)
(*   - masses as exact fractions <<numerator, denominator>>,               *)
(*   - ship dimensions and Math.random draws in thousandths (ShipScale).   *)
(* Every division truncates toward zero (TDiv).  A division by zero, which *)
(* JavaScript answers with Infinity or NaN, yields the one-element vector  *)
(* NaNVec, and every vector operation propagates it.                       *)
(***************************************************************************)
EXTENDS Integers, Sequences, FiniteSets, TLC

VARIABLES
    celestialBodies,      \* PhysicsEngine.celestialBodies: the registry, in order
    simulationEnabled,    \* PhysicsEngine.simulationEnabled
    steps,                \* number of update() calls made so far (bounded)
    lastOp,               \* the operation that produced this state
    lastArg,              \* the arguments of the call that produced this state,
                          \* <<>> where the operation takes none or they are not kept
    ASTEROID_BELT_DATA,   \* Config.ASTEROID_BELT_DATA: the belts, in order
    textures,             \* names of the planets whose texture was loaded
    asteroidGroupAnchors, \* SolarSystemBuilder.asteroidGroupAnchors: belt name -> anchors
    planetOrbits,         \* SolarSystemBuilder.planetOrbits
    scene,                \* identities of the objects that are children of the scene
    nextId,               \* identity the next created object gets
    rebuilds,             \* number of rebuildAsteroidBelt calls made so far (bounded)
    ship,                 \* <<>>, or <<s>> for the ship s the last createSpaceship returned
    shipsBuilt,           \* number of createSpaceship calls made so far (bounded)
    factory,              \* SpaceshipFactory: the arrays its fields pulsingMaterials
                          \* and rotatingParts refer to
    arrays,               \* the arrays the factory created so far, by reference
    returned,             \* the references each createSpaceship call returned, in order
    radiusAtHeight,       \* what the last getRadiusAtHeight call returned, in thousandths
    seeded,               \* identities of the registered bodies that
                          \* initializeOrbitalVelocities visited since they were added
    rotationY,            \* rotation.y of the orbit anchors the frames turned, in
                          \* millionths of a radian, by identity
    app,                  \* the ship application: the fields of SolarSystemSimulation,
                          \* CameraController and InputController the modes depend on
    pool,                 \* FlareSystem.pool: the particles, each with the fields of
                          \* FlareParticle and of its sprite; times in thousandths of
                          \* a second, scale, speed and distance in thousandths
    particleOpacity       \* the opacity of the one SpriteMaterial the sprites share,
                          \* in thousandths

engineVars == <<celestialBodies, simulationEnabled, steps>>

builderVars == <<ASTEROID_BELT_DATA, textures, asteroidGroupAnchors, planetOrbits,
                 scene, nextId, rebuilds>>

shipVars == <<ship, shipsBuilt, factory, arrays, returned, radiusAtHeight>>

mainVars == <<seeded, rotationY>>

appVars == <<app>>

flareVars == <<pool, particleOpacity>>

vars == <<celestialBodies, simulationEnabled, steps, lastOp, lastArg,
          ASTEROID_BELT_DATA, textures, asteroidGroupAnchors, planetOrbits,
          scene, nextId, rebuilds, ship, shipsBuilt, factory, arrays, returned,
          radiusAtHeight, seeded, rotationY, app, pool, particleOpacity>>

---------------------------------------------------------------------------
(* Bounds of the model *)

MaxBodies == 2
MaxSteps == 2
MaxRebuilds == 2
MaxCount == 4
MaxGroupSize == 3
MaxShips == 2
MaxSeedBodies == 3
MaxGenerated == 3
PoolSize == 2
NumSeeds == 40

---------------------------------------------------------------------------
(* Fixed-point units *)

PosScale == 10 * 10
TimeScale == 3 * 10 * 10 * 10
GScale == 10 * 10 * 10

\* Config.GRAVITATIONAL_CONSTANT = 0.005, in thousandths
GRAVITATIONAL_CONSTANT == 5
\* const epsilonSq = 0.1 * 0.1, in squared hundredths
EpsilonSq == 100
\* Math.min(delta, 0.016), in 1/3000 s
MaxDt == 48
\* if (radius < 0.1), in hundredths
MinOrbitRadius == 10
\* Math.abs(body.position.x) > 0.01, in hundredths
AxisTolerance == 1
\* animate: const dt = Math.min(delta, 0.016), in 1/3000 s
FrameMaxDt == 48
\* Config.SOLAR_SYSTEM_ORBIT_SPEED_FACTOR = 0.01, in hundredths
SOLAR_SYSTEM_ORBIT_SPEED_FACTOR == 1

---------------------------------------------------------------------------
(* Scalar arithmetic *)

Abs(a) == IF a < 0 THEN -a ELSE a

Sign(a) == IF a < 0 THEN -1 ELSE 1

\* a / b for b # 0, truncated toward zero
TDiv(a, b) == Sign(a) * Sign(b) * (Abs(a) \div Abs(b))

Min(a, b) == IF a < b THEN a ELSE b

RECURSIVE SqrtSearch(_, _, _)
SqrtSearch(n, lo, hi) ==
    IF lo >= hi THEN lo
    ELSE LET mid == (lo + hi + 1) \div 2
         IN IF mid * mid <= n THEN SqrtSearch(n, mid, hi)
                               ELSE SqrtSearch(n, lo, mid - 1)

\* Math.sqrt on a non-negative number, truncated
Sqrt(n) == SqrtSearch(n, 0, Min(n, 46340))

---------------------------------------------------------------------------
(* THREE.Vector3 *)

ZeroVec == <<0, 0, 0>>

\* a vector whose components are NaN or Infinity
NaNVec == <<"NaN">>

IsFinite(v) == Len(v) = 3

\* Vector3.subVectors(a, b) and Vector3.add(b)
SubVectors(a, b) ==
    IF IsFinite(a) /\ IsFinite(b)
    THEN <<a[1] - b[1], a[2] - b[2], a[3] - b[3]>> ELSE NaNVec

AddVectors(a, b) ==
    IF IsFinite(a) /\ IsFinite(b)
    THEN <<a[1] + b[1], a[2] + b[2], a[3] + b[3]>> ELSE NaNVec

LengthSq(v) == v[1] * v[1] + v[2] * v[2] + v[3] * v[3]

Length(v) == Sqrt(LengthSq(v))

\* v * num / den, the scalar given as a fraction; a zero denominator is a
\* division by zero in JavaScript: the components become NaN or Infinity
ScaleVector(v, num, den) ==
    IF IsFinite(v) /\ den # 0
    THEN <<TDiv(v[1] * num, den), TDiv(v[2] * num, den), TDiv(v[3] * num, den)>>
    ELSE NaNVec

---------------------------------------------------------------------------
(* Masses: exact fractions *)

Mass(n, d) == <<n, d>>

IsZeroMass(m) == m[1] = 0

\* mi * mj as a fraction
MassProduct(a, b) == <<a[1] * b[1], a[2] * b[2]>>

---------------------------------------------------------------------------
(* Strings *)

\* String.prototype.startsWith
StartsWith(s, prefix) ==
    /\ Len(prefix) <= Len(s)
    /\ SubSeq(s, 1, Len(prefix)) = prefix

---------------------------------------------------------------------------
(* PhysicsEngine: the registry *)

\* The object handed to addBody.  A field that is absent (undefined) has its
\* has* flag FALSE; isObject is FALSE for null and undefined; an absent or
\* empty name is "".  id is the object's identity.
BodyObject(id, name, mass, position, velocity) ==
    [isObject |-> TRUE, id |-> id, name |-> name,
     hasMesh |-> TRUE, mesh |-> [name |-> "", position |-> position],
     hasMass |-> TRUE, mass |-> mass,
     hasPosition |-> TRUE, position |-> position,
     hasVelocity |-> TRUE, velocity |-> velocity]

\* a mutant of the validation: body.mesh is not looked at
IsValidBodyNoMesh(body) ==
    /\ body.isObject
    /\ body.name # ""
    /\ body.hasMass
    /\ body.hasPosition
    /\ body.hasVelocity

\* a mutant of the validation: body.mass is not looked at
IsValidBodyNoMass(body) ==
    /\ body.isObject
    /\ body.name # ""
    /\ body.hasMesh
    /\ body.hasPosition
    /\ body.hasVelocity

\* if (body && body.name && body.mesh && body.mass !== undefined
\*     && body.position && body.velocity)
IsValidBody(body) ==
    /\ body.isObject
    /\ body.name # ""
    /\ body.hasMesh
    /\ body.hasMass
    /\ body.hasPosition
    /\ body.hasVelocity

\* addBody(body): the registry after the call
AddBody(bodies, body) ==
    IF IsValidBody(body) THEN Append(bodies, body) ELSE bodies

\* removeBodyByName(name)
RemoveBodyByName(bodies, name) ==
    LET keep(b) == b.name # name IN SelectSeq(bodies, keep)

\* removeBodiesByPrefix(prefix)
RemoveBodiesByPrefix(bodies, prefix) ==
    LET keep(b) == ~StartsWith(b.name, prefix) IN SelectSeq(bodies, keep)

\* getBodyByName(name): the index of the first match, 0 for undefined
GetBodyByName(bodies, name) ==
    IF \E i \in 1..Len(bodies) : bodies[i].name = name
    THEN CHOOSE i \in 1..Len(bodies) :
            /\ bodies[i].name = name
            /\ \A j \in 1..(i - 1) : bodies[j].name # name
    ELSE 0

\* clearBodies()
ClearBodies == <<>>

---------------------------------------------------------------------------
(* PhysicsEngine.initializeOrbitalVelocities *)

\* speed = Math.sqrt(G * sun.mass / radius), in hundredths per second
OrbitalSpeed(sunMass, radius) ==
    Sqrt(TDiv(GRAVITATIONAL_CONSTANT * sunMass[1] * ((PosScale * PosScale * PosScale) \div GScale),
              sunMass[2] * radius))

\* new THREE.Vector3(-z, 0, x).normalize(): normalize divides by length() || 1
Tangent(position, speed) ==
    LET t == <<-position[3], 0, position[1]>>
        len == Length(t)
    IN ScaleVector(t, speed, IF len = 0 THEN 1 ELSE len)

\* a mutant of the seeding: a body too close to the origin keeps its velocity
SeedVelocityKeepNear(body, sunMass) ==
    LET radius == Length(body.position) IN
    IF body.name = "Sun" \/ radius < MinOrbitRadius THEN body.velocity
    ELSE LET speed == OrbitalSpeed(sunMass, radius) IN
         IF Abs(body.position[1]) > AxisTolerance \/ Abs(body.position[2]) > AxisTolerance
         THEN Tangent(body.position, speed)
         ELSE <<0, 0, -speed>>

\* the velocity one body is given (the forEach callback)
SeedVelocity(body, sunMass) ==
    LET radius == Length(body.position) IN
    IF body.name = "Sun" THEN body.velocity
    ELSE IF radius < MinOrbitRadius THEN ZeroVec
    ELSE LET speed == OrbitalSpeed(sunMass, radius) IN
         IF Abs(body.position[1]) > AxisTolerance \/ Abs(body.position[2]) > AxisTolerance
         THEN Tangent(body.position, speed)
         ELSE <<0, 0, -speed>>

InitializeOrbitalVelocities(bodies) ==
    LET sun == GetBodyByName(bodies, "Sun") IN
    IF sun = 0 THEN bodies
    ELSE [i \in 1..Len(bodies) |->
            [bodies[i] EXCEPT !.velocity = SeedVelocity(bodies[i], bodies[sun].mass)]]

---------------------------------------------------------------------------
(* PhysicsEngine.update *)

\* G * bodyI.mass * bodyJ.mass / distanceSq, then
\* distanceVector.normalize().multiplyScalar(forceMagnitude).
\* The force is kept in hundredths.  A zero distanceSq is a division by zero.
Gravity(bodyI, bodyJ, distanceVector, distanceSq) ==
    LET m == MassProduct(bodyI.mass, bodyJ.mass)
        den == m[2] * distanceSq
        len == Length(distanceVector)
    IN IF den = 0 THEN NaNVec
       ELSE ScaleVector(distanceVector,
                TDiv(GRAVITATIONAL_CONSTANT * m[1] * ((PosScale * PosScale * PosScale) \div GScale), den),
                IF len = 0 THEN 1 ELSE len)

\* a mutant of the pair term: no epsilon floor
PairForceNoFloor(bodyI, bodyJ) ==
    LET distanceVector == SubVectors(bodyJ.position, bodyI.position)
    IN Gravity(bodyI, bodyJ, distanceVector, LengthSq(distanceVector))

\* the body of the inner forEach for one bodyJ other than bodyI: the term
\* added to forceVector
PairForce(bodyI, bodyJ) ==
    LET distanceVector == SubVectors(bodyJ.position, bodyI.position)
        distanceSq == LengthSq(distanceVector)
    IN IF distanceSq < EpsilonSq THEN ZeroVec
       ELSE Gravity(bodyI, bodyJ, distanceVector, distanceSq)

RECURSIVE ForceFrom(_, _, _)
\* forceVector after the inner forEach has visited bodies[j..], for bodies[i]
ForceFrom(bodies, i, j) ==
    IF j > Len(bodies) THEN ZeroVec
    ELSE IF j = i THEN ForceFrom(bodies, i, j + 1)
    ELSE LET rest == ForceFrom(bodies, i, j + 1)
             term == PairForce(bodies[i], bodies[j])
         IN AddVectors(term, rest)

\* the net force on bodies[i]
NetForce(bodies, i) == ForceFrom(bodies, i, 1)

\* a mutant of the velocity update: no check for a zero or undefined mass
UpdatedVelocityUnchecked(bodies, i, dt) ==
    LET bodyI == bodies[i]
        acceleration == ScaleVector(NetForce(bodies, i), bodyI.mass[2], bodyI.mass[1])
    IN AddVectors(bodyI.velocity, ScaleVector(acceleration, dt, TimeScale))

\* the velocity of bodies[i] after the first forEach's callback
UpdatedVelocity(bodies, i, dt) ==
    LET bodyI == bodies[i]
        force == NetForce(bodies, i)
    IN IF ~bodyI.hasMass \/ IsZeroMass(bodyI.mass) THEN bodyI.velocity
       ELSE LET acceleration == ScaleVector(force, bodyI.mass[2], bodyI.mass[1])
            IN AddVectors(bodyI.velocity, ScaleVector(acceleration, dt, TimeScale))

\* a mutant of the position update: a body of mass zero is left in place
MoveBodyIfMassive(body, dt) ==
    IF IsZeroMass(body.mass) THEN body
    ELSE LET p == AddVectors(body.position, ScaleVector(body.velocity, dt, TimeScale))
         IN [body EXCEPT !.position = p, !.mesh.position = p]

\* a mutant of the position update: the handle is not written
MoveBodyNoHandle(body, dt) ==
    LET p == AddVectors(body.position, ScaleVector(body.velocity, dt, TimeScale))
    IN [body EXCEPT !.position = p]

\* body.position.add(body.velocity.clone().multiplyScalar(dt));
\* body.mesh.position.copy(body.position)
MoveBody(body, dt) ==
    LET p == AddVectors(body.position, ScaleVector(body.velocity, dt, TimeScale))
    IN [body EXCEPT !.position = p, !.mesh.position = p]

\* bodiesToUpdate = celestialBodies.filter(b => b.name !== "Sun"), as indices
AllBodies(bodies) == 1..Len(bodies)

BodiesToUpdate(bodies) == {i \in 1..Len(bodies) : bodies[i].name # "Sun"}

RECURSIVE VelocityPass(_, _, _)
\* the first forEach over bodiesToUpdate, from index i on
VelocityPass(bodies, i, dt) ==
    IF i > Len(bodies) THEN bodies
    ELSE IF i \notin BodiesToUpdate(bodies) THEN VelocityPass(bodies, i + 1, dt)
    ELSE VelocityPass([bodies EXCEPT ![i].velocity = UpdatedVelocity(bodies, i, dt)],
                      i + 1, dt)

RECURSIVE PositionPass(_, _, _)
\* the second forEach over bodiesToUpdate, from index i on
PositionPass(bodies, i, dt) ==
    IF i > Len(bodies) THEN bodies
    ELSE IF i \notin BodiesToUpdate(bodies) THEN PositionPass(bodies, i + 1, dt)
    ELSE PositionPass([bodies EXCEPT ![i] = MoveBody(bodies[i], dt)], i + 1, dt)

RECURSIVE SinglePass(_, _, _)
\* a mutant of the integration: each body is moved right after its velocity
\* is updated, so later bodies read positions of this step
SinglePass(bodies, i, dt) ==
    IF i > Len(bodies) THEN bodies
    ELSE IF i \notin BodiesToUpdate(bodies) THEN SinglePass(bodies, i + 1, dt)
    ELSE LET v == [bodies EXCEPT ![i].velocity = UpdatedVelocity(bodies, i, dt)]
         IN SinglePass([v EXCEPT ![i] = MoveBody(v[i], dt)], i + 1, dt)

IntegrateOnePass(bodies, dt) == SinglePass(bodies, 1, dt)

\* the two forEach passes of update, with the clamped dt
Integrate(bodies, dt) == PositionPass(VelocityPass(bodies, 1, dt), 1, dt)

\* a mutant of update: delta is not clamped
UpdateUnclamped(bodies, enabled, delta) ==
    IF ~enabled THEN bodies
    ELSE Integrate(bodies, delta)

\* a mutant of update: simulationEnabled is not looked at
UpdateAlways(bodies, enabled, delta) == Integrate(bodies, Min(delta, MaxDt))

\* update(delta): the registry after the call
Update(bodies, enabled, delta) ==
    IF ~enabled THEN bodies
    ELSE Integrate(bodies, Min(delta, MaxDt))

---------------------------------------------------------------------------
(* Config (config.js) *)

\* Config.SUN_MASS = 333000
SUN_MASS == Mass(333000, 1)

\* Config.EARTH_ORBIT_RADIUS = 100 and Config.EARTH_ORBIT_SPEED = 1.0
EARTH_ORBIT_RADIUS == 100 * PosScale

EARTH_ORBIT_SPEED == <<1, 1>>

\* Config.PLANET_DATA: name, orbitRadius, orbitSpeedFactor, mass
PLANET_DATA ==
    << [name |-> "Mercury", orbitRadius |-> 40 * PosScale, orbitSpeedFactor |-> <<160, 100>>, mass |-> Mass(55, 1000)],
       [name |-> "Venus", orbitRadius |-> 70 * PosScale, orbitSpeedFactor |-> <<117, 100>>, mass |-> Mass(815, 1000)],
       [name |-> "Earth", orbitRadius |-> EARTH_ORBIT_RADIUS, orbitSpeedFactor |-> EARTH_ORBIT_SPEED, mass |-> Mass(1, 1)],
       [name |-> "Mars", orbitRadius |-> 150 * PosScale, orbitSpeedFactor |-> <<80, 100>>, mass |-> Mass(107, 1000)],
       [name |-> "Jupiter", orbitRadius |-> 520 * PosScale, orbitSpeedFactor |-> <<43, 100>>, mass |-> Mass(3178, 10)],
       [name |-> "Saturn", orbitRadius |-> 950 * PosScale, orbitSpeedFactor |-> <<32, 100>>, mass |-> Mass(952, 10)],
       [name |-> "Uranus", orbitRadius |-> 1920 * PosScale, orbitSpeedFactor |-> <<23, 100>>, mass |-> Mass(145, 10)],
       [name |-> "Neptune", orbitRadius |-> 3010 * PosScale, orbitSpeedFactor |-> <<18, 100>>, mass |-> Mass(171, 10)] >>

\* one entry of Config.ASTEROID_BELT_DATA, as _createAsteroidBeltGroups reads it
BeltData(name, count, totalMass, groupSize) ==
    [name |-> name, count |-> count, totalMass |-> totalMass, groupSize |-> groupSize,
     innerRadius |-> 200 * PosScale, outerRadius |-> 240 * PosScale,
     orbitSpeedFactor |-> <<1, 2>>]

---------------------------------------------------------------------------
(* SolarSystemBuilder *)

\* the builder with the engine's registry, threaded through its methods
BuilderState(bodies, anchors, orbits, sceneObjects, id) ==
    [bodies |-> bodies, asteroidGroupAnchors |-> anchors, planetOrbits |-> orbits,
     scene |-> sceneObjects, nextId |-> id]

\* Factory.createOrbitAnchor(scene) and Factory.createMesh + scene.add: a new
\* object, whose name is the default "", becomes a child of the scene
CreateOrbitAnchor(st) ==
    [st EXCEPT !.scene = st.scene \cup {st.nextId}, !.nextId = st.nextId + 1]

\* the object literal passed to addBody; its mesh is the object `id`
BuilderBody(id, name, mass, x, z) ==
    BodyObject(id, name, mass, <<x, 0, z>>, ZeroVec)

\* _createSun(): the Sun mesh and the glow mesh join the scene
CreateSun(st) ==
    LET withMesh == CreateOrbitAnchor(st)
        withBody == [withMesh EXCEPT !.bodies =
                        AddBody(withMesh.bodies, BuilderBody(st.nextId, "Sun", SUN_MASS, 0, 0))]
    IN CreateOrbitAnchor(withBody)

\* Config.PLANET_DATA.find(p => p.name === "Earth")
EarthData == PLANET_DATA[CHOOSE k \in 1..Len(PLANET_DATA) : PLANET_DATA[k].name = "Earth"]

\* _createEarthSystem()
CreateEarthSystem(st) ==
    LET withAnchor == CreateOrbitAnchor(st) IN
    [withAnchor EXCEPT
        !.bodies = AddBody(withAnchor.bodies,
                     BuilderBody(st.nextId, "EarthSystem", EarthData.mass, EARTH_ORBIT_RADIUS, 0)),
        !.planetOrbits = Append(withAnchor.planetOrbits,
                            [anchor |-> st.nextId, speed |-> EARTH_ORBIT_SPEED])]

\* the forEach callback of _createOtherPlanets for one entry of PLANET_DATA
CreatePlanet(st, data, loaded) ==
    IF data.name = "Earth" THEN st
    ELSE LET withAnchor == CreateOrbitAnchor(st) IN
         IF data.name \notin loaded THEN withAnchor
         ELSE [withAnchor EXCEPT
                 !.bodies = AddBody(withAnchor.bodies,
                              BuilderBody(st.nextId, data.name, data.mass, data.orbitRadius, 0)),
                 !.planetOrbits = Append(withAnchor.planetOrbits,
                                     [anchor |-> st.nextId, speed |-> data.orbitSpeedFactor])]

RECURSIVE CreateOtherPlanets(_, _, _)
\* _createOtherPlanets(), from entry k of PLANET_DATA on
CreateOtherPlanets(st, k, loaded) ==
    IF k > Len(PLANET_DATA) THEN st
    ELSE CreateOtherPlanets(CreatePlanet(st, PLANET_DATA[k], loaded), k + 1, loaded)

\* Math.ceil(a / b) for a >= 0, b >= 1
Ceil(a, b) == (a + b - 1) \div b

\* Math.floor(a / b): a mutant of the group count
NumGroupsFloor(totalPoints, groupSize) == totalPoints \div groupSize

\* const numGroups = Math.ceil(totalPoints / groupSize)
NumGroups(totalPoints, groupSize) == Ceil(totalPoints, groupSize)

\* const groupMass = beltData.totalMass / numGroups
GroupMass(beltData, numGroups) ==
    Mass(beltData.totalMass[1], beltData.totalMass[2] * numGroups)

\* (Math.cos(groupAngle), Math.sin(groupAngle)) in thousandths, for
\* groupAngle = (g / numGroups) * 2 pi
GroupDirection(g, numGroups) ==
    LET table ==
          << << <<1000, 0>> >>,
             << <<1000, 0>>, <<-1000, 0>> >>,
             << <<1000, 0>>, <<-500, 866>>, <<-500, -866>> >>,
             << <<1000, 0>>, <<0, 1000>>, <<-1000, 0>>, <<0, -1000>> >>,
             << <<1000, 0>>, <<309, 951>>, <<-809, 588>>, <<-809, -588>>, <<309, -951>> >>,
             << <<1000, 0>>, <<500, 866>>, <<-500, 866>>, <<-1000, 0>>, <<-500, -866>>, <<500, -866>> >> >>
    IN table[numGroups][g + 1]

\* const pointsInThisGroup = (g === numGroups - 1) ? (totalPoints - g * groupSize) : groupSize
PointsInThisGroup(g, numGroups, totalPoints, groupSize) ==
    IF g = numGroups - 1 THEN totalPoints - g * groupSize ELSE groupSize

\* one pass of the for loop of _createAsteroidBeltGroups, for group g
CreateGroup(st, beltData, groupSize, numGroups, g) ==
    LET withAnchor == CreateOrbitAnchor(st)
        groupName == beltData.name \o "_Group_" \o ToString(g)
        groupRadius == (beltData.innerRadius + beltData.outerRadius) \div 2
        dir == GroupDirection(g, numGroups)
        anchor == [id |-> st.nextId, name |-> "",
                   points |-> PointsInThisGroup(g, numGroups, beltData.count, groupSize)]
    IN [withAnchor EXCEPT
          !.asteroidGroupAnchors[beltData.name] = Append(@, anchor),
          !.planetOrbits = Append(@, [anchor |-> st.nextId, speed |-> beltData.orbitSpeedFactor]),
          !.bodies = AddBody(@, BuilderBody(st.nextId, groupName,
                                   GroupMass(beltData, numGroups),
                                   TDiv(dir[1] * groupRadius, 1000),
                                   TDiv(dir[2] * groupRadius, 1000)))]

RECURSIVE CreateGroups(_, _, _, _, _)
\* the for loop of _createAsteroidBeltGroups, from group g on
CreateGroups(st, beltData, groupSize, numGroups, g) ==
    IF g >= numGroups THEN st
    ELSE CreateGroups(CreateGroup(st, beltData, groupSize, numGroups, g),
                      beltData, groupSize, numGroups, g + 1)

\* obj[key] = value on a plain object
SetKey(obj, key, value) ==
    [k \in (DOMAIN obj) \cup {key} |-> IF k = key THEN value ELSE obj[k]]

\* _createAsteroidBeltGroups(beltData, groupSize)
CreateAsteroidBeltGroups(st, beltData, groupSize) ==
    LET cleared == [st EXCEPT !.asteroidGroupAnchors =
                        SetKey(st.asteroidGroupAnchors, beltData.name, <<>>)]
    IN CreateGroups(cleared, beltData, groupSize,
                    NumGroups(beltData.count, groupSize), 0)

RECURSIVE CreateAllAsteroidBelts(_, _, _)
\* _createAllAsteroidBelts(), from entry k of ASTEROID_BELT_DATA on
CreateAllAsteroidBelts(st, belts, k) ==
    IF k > Len(belts) THEN st
    ELSE CreateAllAsteroidBelts(CreateAsteroidBeltGroups(st, belts[k], belts[k].groupSize),
                                belts, k + 1)

\* buildInitialScene()
BuildInitialScene(st, belts, loaded) ==
    LET fresh == [st EXCEPT !.bodies = ClearBodies, !.planetOrbits = <<>>,
                            !.asteroidGroupAnchors = <<>>]
    IN CreateAllAsteroidBelts(
           CreateOtherPlanets(CreateEarthSystem(CreateSun(fresh)), 1, loaded),
           belts, 1)

\* the forEach callback of rebuildAsteroidBelt for the k-th old anchor
RemoveGroup(st, beltName, k) ==
    LET anchor == st.asteroidGroupAnchors[beltName][k]
        orbitKept(orbit) == orbit.anchor # anchor.id
    IN [st EXCEPT
          !.bodies = RemoveBodyByName(@, anchor.name),
          !.planetOrbits = SelectSeq(@, orbitKept),
          !.scene = @ \ {anchor.id}]

RECURSIVE RemoveGroups(_, _, _)
\* this.asteroidGroupAnchors[beltName].forEach(...), from the k-th anchor on
RemoveGroups(st, beltName, k) ==
    IF k > Len(st.asteroidGroupAnchors[beltName]) THEN st
    ELSE RemoveGroups(RemoveGroup(st, beltName, k), beltName, k + 1)

\* Config.ASTEROID_BELT_DATA.find(b => b.name === beltName): index, 0 for undefined
FindBelt(belts, beltName) ==
    IF \E k \in 1..Len(belts) : belts[k].name = beltName
    THEN CHOOSE k \in 1..Len(belts) :
            /\ belts[k].name = beltName
            /\ \A j \in 1..(k - 1) : belts[j].name # beltName
    ELSE 0

\* rebuildAsteroidBelt(beltName, newGroupSize)
RebuildAsteroidBelt(st, belts, beltName, newGroupSize) ==
    LET k == FindBelt(belts, beltName) IN
    IF k = 0 THEN st
    ELSE LET removed == IF beltName \in DOMAIN st.asteroidGroupAnchors
                        THEN RemoveGroups(st, beltName, 1) ELSE st
         IN CreateAsteroidBeltGroups(removed, belts[k], newGroupSize)

---------------------------------------------------------------------------
(* SpaceshipFactory (spaceshipFactory.js).  Lengths of the ship are in
   thousandths (ShipScale); a value of Math.random() is a number of
   thousandths in 0..999.  Math.random is a seeded generator: the random
   source of a createSpaceship call is the value its first draw returns, and
   each draw determines the next; the draws are read in the order of the
   code, and draws that only pick a roughness, a silhouette or a size that no
   attachment depends on are not read. *)

ShipScale == 10 * 10 * 10

\* a * b for two numbers in thousandths
Times(a, b) == TDiv(a * b, ShipScale)

Max(a, b) == IF a > b THEN a ELSE b

\* the generator whose next draw returns source
Rng(source) == [next |-> source]

\* Math.random(): the value the next call returns, and the generator after
\* it (a full-period congruential step over the thousandths)
Random(rng) == rng.next

Advance(rng) == [next |-> (rng.next * 621 + 7) % ShipScale]

\* the random sources: NumSeeds first draws spread over [0, 1)
RandomSources == {(k * ShipScale) \div NumSeeds : k \in 0..(NumSeeds - 1)}

\* randomRange(min, max) for the value u of Math.random()
RandomRange(u, min, max) == TDiv(u * (max - min), ShipScale) + min

\* a mutant of randomInt: Math.floor(randomRange(min, max + 2))
RandomIntPastMax(u, min, max) == (u * (max + 2 - min)) \div ShipScale + min

\* randomInt(min, max) for the value u of Math.random(), min and max integers
RandomInt(u, min, max) == (u * (max + 1 - min)) \div ShipScale + min

\* a mutant of getRadiusAtHeight: heightRatio is not clamped
GetRadiusAtHeightUnclamped(yPos, bodyLength, bottomRadius, topRadius) ==
    bottomRadius + TDiv((topRadius - bottomRadius) * (2 * yPos + bodyLength), 2 * bodyLength)

\* getRadiusAtHeight(yPos, bodyLength, bottomRadius, topRadius):
\* heightRatio = (yPos + bodyLength / 2) / bodyLength, as a fraction over
\* 2 * bodyLength, clamped to [0, 1]
GetRadiusAtHeight(yPos, bodyLength, bottomRadius, topRadius) ==
    LET ratioNum == 2 * yPos + bodyLength
        ratioDen == 2 * bodyLength
        clampedNum == Max(0, Min(ratioDen, ratioNum))
    IN bottomRadius + TDiv((topRadius - bottomRadius) * clampedNum, ratioDen)

\* export const palettes (config.js), each colour 0xRRGGBB as a number
palettes ==
    << [name |-> "Military", primary |-> 5597999, secondary |-> 9419919,
        accent |-> 13468991, metallic |-> 11184810, nozzle |-> 16753920],
       [name |-> "Civilian", primary |-> 15792383, secondary |-> 4620980,
        accent |-> 16753920, metallic |-> 14474460, nozzle |-> 16753920],
       [name |-> "Industrial", primary |-> 7372944, secondary |-> 16766720,
        accent |-> 11674146, metallic |-> 8421504, nozzle |-> 16747520],
       [name |-> "Alien", primary |-> 4915330, secondary |-> 65407,
        accent |-> 9699539, metallic |-> 9055202, nozzle |-> 65535],
       [name |-> "Classic SciFi", primary |-> 12632256, secondary |-> 16711680,
        accent |-> 255, metallic |-> 14737632, nozzle |-> 16776960],
       [name |-> "Stealth", primary |-> 3100495, secondary |-> 7833753,
        accent |-> 65535, metallic |-> 6908265, nozzle |-> 52945] >>

\* new THREE.MeshStandardMaterial({ color, roughness, metalness }): which of
\* the materials of createSpaceship it is, its colour, and the emissive
\* colours it was given (none)
StandardMaterial(slot, color) == [slot |-> slot, color |-> color, emissive |-> {}]

\* a mutant of the nozzle material: it glows in a fixed orange
NozzleMaterialOrange(nozzleColor) ==
    [slot |-> "nozzle", color |-> nozzleColor, emissive |-> {16753920}]

\* new THREE.MeshStandardMaterial({ color: nozzleColor, emissive: nozzleColor, ... })
NozzleMaterial(nozzleColor) ==
    [slot |-> "nozzle", color |-> nozzleColor, emissive |-> {nozzleColor}]

\* createBody(material): the userData of the body group, the materials of its
\* meshes, and the source
CreateBody(material, rng0) ==
    LET useMultiSegment == Random(rng0) < 400
        rng1 == Advance(rng0)
        u1 == Random(rng1)
        u2 == Random(Advance(rng1))
        u3 == Random(Advance(Advance(rng1)))
        u4 == Random(Advance(Advance(Advance(rng1))))
    IN IF useMultiSegment
       THEN LET lowerLength == RandomRange(u1, 3000, 6000)
                upperLength == RandomRange(u2, 2000, 5000)
                lowerRadius == RandomRange(u3, 1000, 1800)
                upperRadius == Times(lowerRadius, RandomRange(u4, 600, 1400))
            IN [shape |-> "multiSegment", length |-> lowerLength + upperLength,
                radius |-> Max(lowerRadius, upperRadius),
                topRadius |-> upperRadius, bottomRadius |-> lowerRadius,
                meshes |-> 2, materials |-> {material},
                rng |-> Advance(Advance(Advance(Advance(rng1))))]
       ELSE LET bodyLength == RandomRange(u1, 5000, 9000)
                bodyRadius == RandomRange(u2, 1000, 1600)
                capsuleCylLength == bodyLength - 2 * bodyRadius
            IN IF u3 > 400
               THEN [shape |-> "tapered", length |-> bodyLength, radius |-> bodyRadius,
                     topRadius |-> Times(bodyRadius, RandomRange(u4, 700, 1000)),
                     bottomRadius |-> bodyRadius,
                     meshes |-> 1, materials |-> {material},
                     rng |-> Advance(Advance(Advance(Advance(rng1))))]
               ELSE IF capsuleCylLength > 100
               THEN [shape |-> "capsule", length |-> bodyLength, radius |-> bodyRadius,
                     topRadius |-> bodyRadius, bottomRadius |-> bodyRadius,
                     meshes |-> 1, materials |-> {material},
                     rng |-> Advance(Advance(Advance(rng1)))]
               ELSE [shape |-> "sphere", length |-> 2 * bodyRadius, radius |-> bodyRadius,
                     topRadius |-> bodyRadius, bottomRadius |-> bodyRadius,
                     meshes |-> 1, materials |-> {material},
                     rng |-> Advance(Advance(Advance(rng1)))]

\* createNoseCone(material, bodyTopRadius, bodyLength): one mesh
CreateNoseCone(material) == [kind |-> "noseCone", materials |-> {material}]

\* const angle = (Math.PI * 2 / count) * i, as the fraction i / count of a turn
AngleOf(i, count) == <<i, count>>

\* a mutant of the facing: rotation.y = angle
FaceInward(angle) == angle

\* wing.rotation.y = -angle; pod.rotation.y = -angle
FaceOutward(angle) == <<-angle[1], angle[2]>>

\* rotation.y of an object nobody turned
NoTurn == <<0, 1>>

\* const radialPosition = attachRadius * 0.95
WingRadialPosition(attachRadius) == TDiv(attachRadius * 95, 100)

\* createWings(material, bodyRadius, bodyLength, bodyBottomRadius, bodyTopRadius)
CreateWings(material, body, rng0) ==
    LET drawn == RandomInt(Random(rng0), 2, 4)
        rng1 == Advance(rng0)
        wingCount == IF drawn = 3 /\ Random(rng1) > 500 THEN 4 ELSE drawn
        rng2 == IF drawn = 3 THEN Advance(rng1) ELSE rng1
        wingPositionY == RandomRange(Random(rng2), -TDiv(body.length * 35, 100),
                                                   TDiv(body.length * 15, 100))
        attachRadius == GetRadiusAtHeight(wingPositionY, body.length,
                                          body.bottomRadius, body.topRadius)
    IN [parts |-> [i \in 1..wingCount |->
                     [kind |-> "wing", y |-> wingPositionY,
                      radial |-> WingRadialPosition(attachRadius),
                      turn |-> AngleOf(i - 1, wingCount),
                      rotationY |-> FaceOutward(AngleOf(i - 1, wingCount)),
                      materials |-> {material}]],
        rng |-> Advance(rng2)]

\* where createEngines puts the i-th of engineCount units (i from 0): a
\* single unit under the hull on the long axis, several on a circle; no
\* branch sets the rotation of the unit
EnginePlacement(i, engineCount, enginePlacementRadius, engineAttachY) ==
    IF engineCount = 1
    THEN [y |-> engineAttachY, radial |-> 0, turn |-> NoTurn, rotationY |-> NoTurn]
    ELSE [y |-> engineAttachY, radial |-> enginePlacementRadius,
          turn |-> AngleOf(i, engineCount), rotationY |-> NoTurn]

RECURSIVE EngineLoop(_, _, _, _, _, _, _, _)
\* the for loop of createEngines, left passes still to run: the engine units
\* and what was pushed on this.pulsingMaterials
EngineLoop(material, accentMaterial, nozzleMaterial, addDetails, place, rng0, left, done) ==
    IF left = 0 THEN [units |-> done.units, pulsing |-> done.pulsing, rng |-> rng0]
    ELSE LET detailCount == IF addDetails THEN RandomInt(Random(rng0), 1, 3) ELSE 0
             at == EnginePlacement(Len(done.units), place.count, place.radius, place.y)
             unit == [kind |-> "engine", details |-> detailCount,
                      y |-> at.y, radial |-> at.radial, turn |-> at.turn,
                      rotationY |-> at.rotationY,
                      materials |-> {material, nozzleMaterial}
                                    \cup (IF detailCount > 0 THEN {accentMaterial} ELSE {})]
         IN EngineLoop(material, accentMaterial, nozzleMaterial, addDetails, place,
                       IF addDetails THEN Advance(rng0) ELSE rng0, left - 1,
                       [units |-> Append(done.units, unit),
                        pulsing |-> Append(done.pulsing, nozzleMaterial)])

\* engineRadius and finalEngineRadius of createEngines, for the value u of
\* the draw a single engine makes
FinalEngineRadius(engineCount, baseEngineRadius, bodyBottomRadius, u) ==
    LET engineRadius ==
            IF engineCount > 1
            THEN Min(TDiv(baseEngineRadius * ShipScale, Sqrt(engineCount * ShipScale * ShipScale)),
                     TDiv(TDiv(bodyBottomRadius, engineCount) * 85, 100))
            ELSE Times(baseEngineRadius, RandomRange(u, 800, 1100))
    IN Max(150, engineRadius)

\* const engineLength = this.randomRange(finalEngineRadius * 1.5, finalEngineRadius * 4.0)
EngineLength(finalEngineRadius, u) ==
    RandomRange(u, TDiv(finalEngineRadius * 15, 10), finalEngineRadius * 4)

\* enginePlacementRadius = bodyBottomRadius * 0.7 and
\* engineAttachY = -bodyLength / 2 - engineLength / 2
EnginePlace(engineCount, body, engineLength) ==
    [count |-> engineCount,
     radius |-> TDiv(body.bottomRadius * 7, 10),
     y |-> TDiv(-body.length, 2) - TDiv(engineLength, 2)]

\* createEngines(material, accentMaterial, bodyBottomRadius, bodyLength, nozzleColor)
CreateEngines(material, accentMaterial, body, nozzleColor, rng0) ==
    LET engineCount == RandomInt(Random(rng0), 1, 4)
        rng1 == Advance(rng0)
        baseEngineRadius == Times(body.bottomRadius, RandomRange(Random(rng1), 300, 600))
        rng2 == Advance(rng1)
        addDetails == Random(rng2) < 600
        rng3 == Advance(rng2)
        rng4 == IF engineCount > 1 THEN rng3 ELSE Advance(rng3)
        finalEngineRadius == FinalEngineRadius(engineCount, baseEngineRadius,
                                               body.bottomRadius, Random(rng3))
        engineLength == EngineLength(finalEngineRadius, Random(rng4))
    IN EngineLoop(material, accentMaterial, NozzleMaterial(nozzleColor), addDetails,
                  EnginePlace(engineCount, body, engineLength),
                  Advance(rng4), engineCount, [units |-> <<>>, pulsing |-> <<>>])

\* a mutant of the pod placement: the pod's axis is put inside the hull
PodRadialPositionInside(attachRadius, podRadius) == attachRadius - TDiv(podRadius * 6, 10)

\* const radialPosition = attachRadius + podRadius * 0.6
PodRadialPosition(attachRadius, podRadius) == attachRadius + TDiv(podRadius * 6, 10)

\* createPods(material, bodyRadius, bodyLength, bodyBottomRadius, bodyTopRadius)
CreatePods(material, body, rng0) ==
    IF Random(rng0) < 500 THEN [parts |-> <<>>, rng |-> Advance(rng0)]
    ELSE LET rng1 == Advance(rng0)
             podCount == RandomInt(Random(rng1), 1, 2) * 2
             rng2 == Advance(rng1)
             podRadius == Times(body.radius, RandomRange(Random(rng2), 150, 300))
             rng3 == Advance(rng2)
             podPositionY == RandomRange(Random(rng3), -TDiv(body.length * 2, 10),
                                                       TDiv(body.length * 2, 10))
             attachRadius == GetRadiusAtHeight(podPositionY, body.length,
                                               body.bottomRadius, body.topRadius)
         IN [parts |-> [i \in 1..podCount |->
                          [kind |-> "pod", y |-> podPositionY,
                           radial |-> PodRadialPosition(attachRadius, podRadius),
                           turn |-> AngleOf(i - 1, podCount),
                           rotationY |-> FaceOutward(AngleOf(i - 1, podCount)),
                           materials |-> {material}]],
             rng |-> Advance(rng3)]

\* a part put on the hull surface at a drawn height and a drawn angle:
\* (cos(angle) * surfaceRadius, height, sin(angle) * surfaceRadius)
SurfacePart(kind, materials, body, uHeight, uAngle, lowFactor, highFactor) ==
    LET height == RandomRange(uHeight, -TDiv(body.length * lowFactor, 100),
                                        TDiv(body.length * highFactor, 100))
    IN [kind |-> kind, y |-> height,
        radial |-> GetRadiusAtHeight(height, body.length, body.bottomRadius, body.topRadius),
        turn |-> <<uAngle, ShipScale>>,
        materials |-> materials]

\* this.rotatingParts.push(dishGroup), in the dish branch only: what the
\* index-th antenna of the loop leaves in the pushed parts
RotatingPartsPushed(parts, kind, index) ==
    IF kind = "dishAntenna" THEN Append(parts, index) ELSE parts

RECURSIVE AntennaLoop(_, _, _, _, _, _)
\* the for loop of createAntennas, left passes still to run: the antennas and
\* the indices of those pushed on this.rotatingParts
AntennaLoop(material, accentMaterial, body, rng0, left, done) ==
    IF left = 0 THEN [parts |-> done.parts, rotating |-> done.rotating, rng |-> rng0]
    ELSE LET antennaType == Random(rng0)
             uHeight == Random(Advance(rng0))
             uAngle == Random(Advance(Advance(rng0)))
             kind == IF antennaType < 500 THEN "rodAntenna" ELSE "dishAntenna"
             materials == IF antennaType < 500 THEN {material}
                          ELSE {material, accentMaterial}
         IN AntennaLoop(material, accentMaterial, body, Advance(Advance(Advance(rng0))),
                        left - 1,
                        [parts |-> Append(done.parts,
                                      SurfacePart(kind, materials, body, uHeight, uAngle, 40, 45)),
                         rotating |-> RotatingPartsPushed(done.rotating, kind,
                                                          Len(done.parts) + 1)])

\* createAntennas(material, accentMaterial, bodyLength, bodyBottomRadius, bodyTopRadius)
CreateAntennas(material, accentMaterial, body, rng0) ==
    IF Random(rng0) < 400 THEN [parts |-> <<>>, rotating |-> <<>>, rng |-> Advance(rng0)]
    ELSE LET rng1 == Advance(rng0)
             antennaCount == RandomInt(Random(rng1), 1, 4)
         IN AntennaLoop(material, accentMaterial, body, Advance(rng1), antennaCount,
                        [parts |-> <<>>, rotating |-> <<>>])

RECURSIVE DetailLoop(_, _, _, _, _)
\* the for loop over the random details of createSpaceship
DetailLoop(accentMaterial, body, rng0, left, parts) ==
    IF left = 0 THEN [parts |-> parts, rng |-> rng0]
    ELSE LET uHeight == Random(rng0)
             uAngle == Random(Advance(rng0))
         IN DetailLoop(accentMaterial, body, Advance(Advance(rng0)), left - 1,
                       Append(parts, SurfacePart("detail", {accentMaterial}, body,
                                                 uHeight, uAngle, 45, 45)))

\* constructor(): this.pulsingMaterials = []; this.rotatingParts = []
NewSpaceshipFactory ==
    [factory |-> [pulsingMaterials |-> 1, rotatingParts |-> 2],
     arrays |-> << <<>>, <<>> >>]

\* a mutant of the reset: the two arrays are emptied in place
ClearAnimationArrays(fac, arr) ==
    [factory |-> fac,
     arrays |-> [arr EXCEPT ![fac.pulsingMaterials] = <<>>, ![fac.rotatingParts] = <<>>]]

\* this.pulsingMaterials = []; this.rotatingParts = []: two new arrays
ResetAnimationArrays(fac, arr) ==
    [factory |-> [pulsingMaterials |-> Len(arr) + 1, rotatingParts |-> Len(arr) + 2],
     arrays |-> arr \o << <<>>, <<>> >>]

\* userData of a new THREE.Group(): {}, where reading name gives undefined
\* (<<>>)
GroupUserData == [name |-> <<>>]

\* spaceship.userData = { name: "Spaceship", isCelestialBody: true }
SpaceshipUserData == [name |-> <<"Spaceship">>]

\* what the traverse callback writes on the userData of every mesh, given
\* the userData the root holds when the traverse runs
MeshUserData(rootUserData, root) ==
    [parentShip |-> root, isCelestialBody |-> TRUE, name |-> rootUserData.name]

\* createSpaceship() after the reset of the animation arrays, n the identity
\* of the root group: the palette, the hull, the parts attached to it, what
\* the calls pushed on this.pulsingMaterials and this.rotatingParts, what the
\* traverse wrote on the meshes, and the userData the root is given after it
CreateSpaceship(source, n) ==
    LET rng0 == Rng(source)
        selectedPalette == palettes[RandomInt(Random(rng0), 0, Len(palettes) - 1) + 1]
        primaryMaterial == StandardMaterial("primary", selectedPalette.primary)
        secondaryMaterial == StandardMaterial("secondary", selectedPalette.secondary)
        accentMaterial == StandardMaterial("accent", selectedPalette.accent)
        metallicMaterial == StandardMaterial("metallic", selectedPalette.metallic)
        rng1 == Advance(rng0)
        bodyMat == IF Random(rng1) < 700 THEN primaryMaterial ELSE metallicMaterial
        body == CreateBody(bodyMat, Advance(rng1))
        noseConeMat == IF Random(body.rng) < 600 THEN secondaryMaterial ELSE accentMaterial
        rng2 == Advance(body.rng)
        hasWings == Random(rng2) > 150
        rng3 == Advance(rng2)
        wingMat == IF Random(rng3) < 500 THEN secondaryMaterial ELSE primaryMaterial
        wings == IF hasWings THEN CreateWings(wingMat, body, Advance(rng3))
                 ELSE [parts |-> <<>>, rng |-> rng3]
        engineMat == IF Random(wings.rng) < 500 THEN metallicMaterial ELSE accentMaterial
        engines == CreateEngines(engineMat, accentMaterial, body, selectedPalette.nozzle,
                                 Advance(wings.rng))
        antennaMat == IF Random(engines.rng) < 500 THEN accentMaterial ELSE metallicMaterial
        antennas == CreateAntennas(antennaMat, accentMaterial, body, Advance(engines.rng))
        podMat == IF Random(antennas.rng) < 500 THEN secondaryMaterial ELSE primaryMaterial
        pods == CreatePods(podMat, body, Advance(antennas.rng))
        detailCount == RandomInt(Random(pods.rng), 0, 5)
        details == DetailLoop(accentMaterial, body, Advance(pods.rng), detailCount, <<>>)
    IN [palette |-> selectedPalette,
        body |-> [shape |-> body.shape, length |-> body.length, radius |-> body.radius,
                  topRadius |-> body.topRadius, bottomRadius |-> body.bottomRadius,
                  meshes |-> body.meshes, materials |-> body.materials],
        noseCone |-> CreateNoseCone(noseConeMat),
        wings |-> wings.parts,
        engines |-> engines.units,
        antennas |-> antennas.parts,
        pods |-> pods.parts,
        details |-> details.parts,
        pulsing |-> engines.pulsing,
        rotating |-> antennas.rotating,
        id |-> n,
        meshUserData |-> MeshUserData(GroupUserData, n),
        userData |-> SpaceshipUserData]

\* the nozzle material and the dish assembly of the index-th antenna of the
\* n-th ship, as objects
NozzleOf(n) == [ship |-> n, slot |-> "nozzle"]

DishOf(n, index) == [ship |-> n, antenna |-> index]

\* the pushes of createEngines and createAntennas onto the arrays the
\* factory's fields refer to after the reset, and the object returned
PushAnimated(reset, s, n) ==
    LET pulsingRef == reset.factory.pulsingMaterials
        rotatingRef == reset.factory.rotatingParts
        withPulsing == [reset.arrays EXCEPT ![pulsingRef] =
                            @ \o [i \in 1..Len(s.pulsing) |-> NozzleOf(n)]]
        withRotating == [withPulsing EXCEPT ![rotatingRef] =
                            @ \o [i \in 1..Len(s.rotating) |-> DishOf(n, s.rotating[i])]]
    IN [factory |-> reset.factory,
        arrays |-> withRotating,
        result |-> [spaceship |-> s, pulsingMaterials |-> pulsingRef,
                    rotatingParts |-> rotatingRef]]

\* createSpaceship() as the n-th call on the factory: the factory and the
\* arrays after it, and the object it returns
FactoryCreateSpaceship(fac, arr, source, n) ==
    PushAnimated(ResetAnimationArrays(fac, arr), CreateSpaceship(source, n), n)

---------------------------------------------------------------------------
(* The ship application: SolarSystemSimulation (main application file),
   CameraController and InputController.  Its state is one record; each
   method takes the record and yields the record after the call. *)

\* null, a planet mesh, and the root group of the n-th generated ship
NoObject == [kind |-> "null", id |-> 0]

PlanetMesh == [kind |-> "planet", id |-> 0]

SpaceshipGroup(n) == [kind |-> "spaceship", id |-> n]

\* objectMesh.userData?.name || "Unknown Object": the factory names the root
\* of a ship "Spaceship", the celestial factory names a planet after itself
ObjectName(objectMesh) ==
    IF objectMesh.kind = "spaceship" THEN "Spaceship" ELSE "Earth"

\* the constructors of SolarSystemSimulation, CameraController and
\* InputController, and initEventListeners, which registers
\* pointerDownListener on window and a second bound onPointerDown on the canvas
NewApplication ==
    [isEditMode |-> FALSE,
     currentSpaceship |-> NoObject,
     generated |-> 0,
     targetObject |-> NoObject,
     orbitControlsEnabled |-> TRUE,
     isCurrentlyInEditMode |-> FALSE,
     shipNavigationModeActive |-> FALSE,
     windowPointerDown |-> TRUE,
     canvasPointerDown |-> TRUE,
     onPointerDownCalls |-> 0]

\* CameraController.enterEditMode(target)
EnterEditMode(a, target) ==
    IF target = NoObject THEN a
    ELSE [a EXCEPT !.isCurrentlyInEditMode = TRUE, !.orbitControlsEnabled = TRUE]

\* CameraController.exitEditMode()
ExitEditMode(a) == [a EXCEPT !.isCurrentlyInEditMode = FALSE]

\* CameraController.focusOnObject(objectMesh): the target is set; the
\* camera leaves edit mode when the focus goes to anything but a ship; the
\* orbit controls are off on a ship outside edit mode and on otherwise
FocusOnObject(a, objectMesh) ==
    IF objectMesh = NoObject THEN a
    ELSE IF ObjectName(objectMesh) = "Spaceship"
    THEN [a EXCEPT !.targetObject = objectMesh,
                   !.orbitControlsEnabled = a.isCurrentlyInEditMode]
    ELSE [IF a.isCurrentlyInEditMode THEN ExitEditMode(a) ELSE a
              EXCEPT !.targetObject = objectMesh, !.orbitControlsEnabled = TRUE]

\* CameraController.resetFocus()
ResetFocus(a) ==
    [a EXCEPT !.targetObject = NoObject, !.isCurrentlyInEditMode = FALSE,
              !.orbitControlsEnabled = TRUE]

\* CameraController.update(delta, isEditModeGlobal)
CameraUpdate(a, isEditModeGlobal) == [a EXCEPT !.isCurrentlyInEditMode = isEditModeGlobal]

\* InputController.toggleShipNavigationMode(): the listener on window is
\* removed when the mode goes on and added when it goes off
ToggleShipNavigationMode(a) ==
    [a EXCEPT !.shipNavigationModeActive = ~a.shipNavigationModeActive,
              !.windowPointerDown = a.shipNavigationModeActive]

\* InputController.handleKeyDown for the key R
HandleKeyDownR(a) ==
    IF ~a.isCurrentlyInEditMode THEN ToggleShipNavigationMode(a) ELSE a

\* toggleEditMode() once the navigation mode is off: the flag is flipped,
\* then the camera enters edit mode on the ship, or leaves it and refocuses
FlipEditMode(a) ==
    IF ~a.isEditMode
    THEN EnterEditMode([a EXCEPT !.isEditMode = TRUE], a.currentSpaceship)
    ELSE FocusOnObject(ExitEditMode([a EXCEPT !.isEditMode = FALSE]), a.currentSpaceship)

\* SolarSystemSimulation.toggleEditMode()
ToggleEditMode(a) ==
    IF a.currentSpaceship = NoObject \/ a.targetObject # a.currentSpaceship THEN a
    ELSE FlipEditMode(IF ~a.isEditMode /\ a.shipNavigationModeActive
                      THEN ToggleShipNavigationMode(a) ELSE a)

\* generateNewSpaceship() from "Create new ship" on: the factory's ship
\* becomes currentSpaceship and the camera focuses on it
ShipCreated(a) ==
    FocusOnObject([a EXCEPT !.currentSpaceship = SpaceshipGroup(a.generated + 1),
                            !.generated = a.generated + 1],
                  SpaceshipGroup(a.generated + 1))

\* SolarSystemSimulation.generateNewSpaceship()
GenerateNewSpaceship(a) ==
    ShipCreated(IF a.isEditMode THEN ToggleEditMode(a) ELSE a)

\* InputController.onPointerDown(event) for the left button, the ray
\* hitting hit (NoObject: nothing clickable)
OnPointerDown(a, hit) ==
    [FocusOnObject(a, hit) EXCEPT !.onPointerDownCalls = a.onPointerDownCalls + 1]

\* the listener runs if it is registered
IfRegistered(a, registered, hit) == IF registered THEN OnPointerDown(a, hit) ELSE a

\* a pointerdown event: on the canvas it reaches the canvas listener and
\* bubbles to window, elsewhere it reaches window only
DispatchPointerDown(a, onCanvas, hit) ==
    IfRegistered(IfRegistered([a EXCEPT !.onPointerDownCalls = 0],
                              onCanvas /\ a.canvasPointerDown, hit),
                 a.windowPointerDown, hit)

\* init(): the controllers are made and initialized, then the first ship
Initialized == GenerateNewSpaceship(NewApplication)

---------------------------------------------------------------------------
(* The solar flares: FlareParticle and FlareSystem.  The direction of a
   flare is normalized, so a particle keeps the speed it was given and the
   distance it has travelled from its origin along that direction. *)

\* new FlareParticle(sprite), the sprite made invisible by the constructor
\* of FlareSystem
NewParticle ==
    [isActive |-> FALSE, visible |-> FALSE, lifetime |-> 0, age |-> 0,
     initialScale |-> ShipScale, speed |-> 0, travelled |-> 0]

\* the pool the constructor of FlareSystem fills
NewPool(count) == [i \in 1..count |-> NewParticle]

\* FlareParticle.activate(position, velocity, lifetime, scale)
Activate(particle, speed, lifetime, scale) ==
    [particle EXCEPT !.travelled = 0, !.speed = speed, !.lifetime = lifetime, !.age = 0,
                     !.initialScale = scale, !.visible = TRUE, !.isActive = TRUE]

\* FlareParticle.deactivate()
Deactivate(particle) == [particle EXCEPT !.visible = FALSE, !.isActive = FALSE]

\* a mutant of FlareParticle.update: if (this.age > this.lifetime)
ParticleUpdateLate(particle, delta) ==
    IF ~particle.isActive THEN particle
    ELSE IF particle.age + delta > particle.lifetime
    THEN Deactivate([particle EXCEPT !.age = particle.age + delta])
    ELSE [particle EXCEPT !.age = particle.age + delta,
                          !.travelled = particle.travelled + Times(particle.speed, delta)]

\* FlareParticle.update(delta)
ParticleUpdate(particle, delta) ==
    IF ~particle.isActive THEN particle
    ELSE IF particle.age + delta >= particle.lifetime
    THEN Deactivate([particle EXCEPT !.age = particle.age + delta])
    ELSE [particle EXCEPT !.age = particle.age + delta,
                          !.travelled = particle.travelled + Times(particle.speed, delta)]

\* material.opacity = 1.0 - age / lifetime, written by every particle that
\* is updated and stays active, the last of them in pool order
RECURSIVE OpacityAfter(_, _, _, _)
OpacityAfter(particles, opacity, delta, i) ==
    IF i > Len(particles) THEN opacity
    ELSE IF particles[i].isActive /\ particles[i].age + delta < particles[i].lifetime
    THEN OpacityAfter(particles, ShipScale - TDiv((particles[i].age + delta) * ShipScale,
                                                  particles[i].lifetime), delta, i + 1)
    ELSE OpacityAfter(particles, opacity, delta, i + 1)

\* FlareSystem.update(delta)
FlareUpdate(particles, delta) ==
    [i \in 1..Len(particles) |-> ParticleUpdate(particles[i], delta)]

\* the n-th value Math.random() returns from this source on
RECURSIVE NthRandom(_, _)
NthRandom(rng, n) == IF n = 1 THEN Random(rng) ELSE NthRandom(Advance(rng), n - 1)

\* a mutant of find: the first particle, active or not
FindFirst(particles) == IF Len(particles) > 0 THEN 1 ELSE 0

\* this.pool.find(p => !p.isActive): the index of the first inactive
\* particle, 0 when there is none
FindInactive(particles) ==
    IF \E i \in 1..Len(particles) : ~particles[i].isActive
    THEN CHOOSE i \in 1..Len(particles) :
             /\ ~particles[i].isActive
             /\ \A j \in 1..(i - 1) : particles[j].isActive
    ELSE 0

\* the particle createFlare activates: three draws spread the direction,
\* the fourth gives the lifetime, the fifth the scale, the sixth the speed
FlareOf(particle, rng, lifetimeMin, lifetimeMax, scaleMin, scaleMax, speedMin, speedMax) ==
    Activate(particle,
             RandomRange(NthRandom(rng, 6), speedMin, speedMax),
             RandomRange(NthRandom(rng, 4), lifetimeMin, lifetimeMax),
             RandomRange(NthRandom(rng, 5), scaleMin, scaleMax) \div 2)

\* FlareSystem.createFlare(originPosition, baseDirection, lifetimeMin,
\* lifetimeMax, ...) with the default scales and speeds, found the particle
\* pool.find returned
CreateFlare(particles, found, rng, lifetimeMin, lifetimeMax) ==
    IF found = 0 THEN particles
    ELSE [particles EXCEPT ![found] =
              FlareOf(particles[found], rng, lifetimeMin, lifetimeMax,
                      ShipScale \div 2, 2 * ShipScale, 5 * ShipScale, 15 * ShipScale)]

---------------------------------------------------------------------------
(* The engine on its own: any caller, any bodies *)

\* well-formed bodies a caller may register; two share the name "Earth" and
\* the same position, "Mars" lies within 0.1 of them, "MainBelt_Group_0"
\* just outside 0.1, and "Probe" has mass 0; the handle of "Mars" sits at the
\* origin of its orbit anchor, as the meshes of the planets do
ValidBodies ==
    { BodyObject(1, "Sun", Mass(600, 1), <<0, 0, 0>>, <<0, 0, 0>>),
      BodyObject(2, "Earth", Mass(500, 1), <<100, 0, 0>>, <<0, 0, 0>>),
      BodyObject(3, "Earth", Mass(400, 1), <<100, 0, 0>>, <<0, 50, 0>>),
      BodyObject(4, "MainBelt_Group_0", Mass(300, 1), <<100, 0, 12>>, <<0, 0, 100>>),
      [BodyObject(5, "Mars", Mass(1, 2), <<105, 0, 0>>, <<0, 0, 0>>)
            EXCEPT !.mesh = [name |-> "Mars", position |-> <<0, 0, 0>>]],
      BodyObject(6, "Probe", Mass(0, 1), <<0, 100, 100>>, <<0, 0, 70>>) }

\* objects addBody must refuse: null, and an object lacking one field
InvalidBodies ==
    LET b == BodyObject(7, "Venus", Mass(1, 1), <<0, 0, 70>>, <<0, 0, 0>>) IN
    { [b EXCEPT !.isObject = FALSE],
      [b EXCEPT !.name = ""],
      [b EXCEPT !.hasMesh = FALSE],
      [b EXCEPT !.hasMass = FALSE],
      [b EXCEPT !.hasPosition = FALSE],
      [b EXCEPT !.hasVelocity = FALSE] }

BodyObjects == ValidBodies \cup InvalidBodies

NameArgs == {"Sun", "Earth", "Pluto", ""}

PrefixArgs == {"MainBelt_Group_", "Ma"}

\* delta of a frame, in 1/3000 s: 0.01 s and 0.05 s
Deltas == {30, 150}

Ids(bodies) == {bodies[i].id : i \in 1..Len(bodies)}

\* the belts of the configuration and the textures that were loaded
BeltConfigs ==
    { <<BeltData("MainBelt", count, totalMass, groupSize)>> :
        count \in 1..MaxCount, totalMass \in {Mass(1, 2), Mass(3, 1)},
        groupSize \in 1..MaxGroupSize }
    \cup { <<BeltData("MainBelt", MaxCount, Mass(1, 2), 2),
             BeltData("KuiperBelt", 2, Mass(1, 1), 1)>> }

PlanetNames == {PLANET_DATA[k].name : k \in 1..Len(PLANET_DATA)}

TextureSets == {PlanetNames, PlanetNames \ {"Mars"}}

BeltNameArgs == {"MainBelt", "OortCloud"}

GroupSizes == 1..MaxGroupSize

\* the state after the constructors of PhysicsEngine and SolarSystemBuilder
Constructed ==
    /\ celestialBodies = <<>>
    /\ simulationEnabled = FALSE
    /\ steps = 0
    /\ lastOp = "constructor"
    /\ lastArg = <<>>
    /\ asteroidGroupAnchors = <<>>
    /\ planetOrbits = <<>>
    /\ scene = {}
    /\ nextId = 1
    /\ rebuilds = 0
    /\ ship = <<>>
    /\ shipsBuilt = 0
    /\ factory = NewSpaceshipFactory.factory
    /\ arrays = NewSpaceshipFactory.arrays
    /\ returned = <<>>
    /\ radiusAtHeight = 0
    /\ seeded = {}
    /\ rotationY = <<>>
    /\ app = Initialized
    /\ pool = NewPool(PoolSize)
    /\ particleOpacity = ShipScale

Init ==
    /\ Constructed
    /\ ASTEROID_BELT_DATA = <<BeltData("MainBelt", MaxCount, Mass(1, 2), 2)>>
    /\ textures = PlanetNames

InitBuilder ==
    /\ Constructed
    /\ ASTEROID_BELT_DATA \in BeltConfigs
    /\ textures \in TextureSets

\* the bodies initializeOrbitalVelocities has visited since they were added:
\* all of the registry when a "Sun" is found, no more than before otherwise
SeededBy(bodies, before) ==
    IF GetBodyByName(bodies, "Sun") = 0 THEN before ELSE Ids(bodies)

\* a caller registers an object that is not in the registry yet, while the
\* registry holds fewer than limit bodies
AddBodyWithin(body, limit) ==
    /\ lastOp' = "addBody"
    /\ lastArg' = <<body>>
    /\ body.id \notin Ids(celestialBodies)
    /\ Len(celestialBodies) < limit
    /\ celestialBodies' = AddBody(celestialBodies, body)
    /\ UNCHANGED <<simulationEnabled, steps>>
    /\ seeded' = seeded \ {body.id}
    /\ UNCHANGED <<builderVars, shipVars, appVars, flareVars, rotationY>>

DoAddBody(body) == AddBodyWithin(body, MaxBodies)

DoRemoveBodyByName(name) ==
    /\ lastOp' = "removeBodyByName"
    /\ lastArg' = <<>>
    /\ celestialBodies' = RemoveBodyByName(celestialBodies, name)
    /\ UNCHANGED <<simulationEnabled, steps>>
    /\ seeded' = seeded \cap Ids(celestialBodies')
    /\ UNCHANGED <<builderVars, shipVars, appVars, flareVars, rotationY>>

DoRemoveBodiesByPrefix(prefix) ==
    /\ lastOp' = "removeBodiesByPrefix"
    /\ lastArg' = <<>>
    /\ celestialBodies' = RemoveBodiesByPrefix(celestialBodies, prefix)
    /\ UNCHANGED <<simulationEnabled, steps>>
    /\ seeded' = seeded \cap Ids(celestialBodies')
    /\ UNCHANGED <<builderVars, shipVars, appVars, flareVars, rotationY>>

DoClearBodies ==
    /\ lastOp' = "clearBodies"
    /\ lastArg' = <<>>
    /\ celestialBodies' = ClearBodies
    /\ UNCHANGED <<simulationEnabled, steps>>
    /\ seeded' = seeded \cap Ids(celestialBodies')
    /\ UNCHANGED <<builderVars, shipVars, appVars, flareVars, rotationY>>

DoInitializeOrbitalVelocities ==
    /\ lastOp' = "initializeOrbitalVelocities"
    /\ lastArg' = <<>>
    /\ celestialBodies' = InitializeOrbitalVelocities(celestialBodies)
    /\ UNCHANGED <<simulationEnabled, steps>>
    /\ seeded' = SeededBy(celestialBodies, seeded)
    /\ UNCHANGED <<builderVars, shipVars, appVars, flareVars, rotationY>>

\* simulationEnabled is set from outside the engine
SetSimulationEnabled(flag) ==
    /\ lastOp' = "setSimulationEnabled"
    /\ lastArg' = <<>>
    /\ simulationEnabled' = flag
    /\ UNCHANGED <<celestialBodies, steps>>
    /\ UNCHANGED <<builderVars, shipVars, appVars, flareVars, mainVars>>

DoUpdate(delta) ==
    /\ lastOp' = "update"
    /\ lastArg' = <<delta>>
    /\ steps < MaxSteps
    /\ celestialBodies' = Update(celestialBodies, simulationEnabled, delta)
    /\ steps' = steps + 1
    /\ UNCHANGED simulationEnabled
    /\ UNCHANGED <<builderVars, shipVars, appVars, flareVars, mainVars>>

\* the builder and the registry it fills, as one value
Builder ==
    BuilderState(celestialBodies, asteroidGroupAnchors, planetOrbits, scene, nextId)

\* the builder's fields and the registry take the values of st
BuilderBecomes(st) ==
    /\ celestialBodies' = st.bodies
    /\ asteroidGroupAnchors' = st.asteroidGroupAnchors
    /\ planetOrbits' = st.planetOrbits
    /\ scene' = st.scene
    /\ nextId' = st.nextId

\* init() of main.js builds the scene once, right after construction
DoBuildInitialScene ==
    /\ lastOp = "constructor"
    /\ lastOp' = "buildInitialScene"
    /\ lastArg' = <<>>
    /\ BuilderBecomes(BuildInitialScene(Builder, ASTEROID_BELT_DATA, textures))
    /\ UNCHANGED <<simulationEnabled, steps, ASTEROID_BELT_DATA, textures, rebuilds>>
    /\ seeded' = seeded \cap Ids(celestialBodies')
    /\ UNCHANGED <<shipVars, appVars, flareVars, rotationY>>

\* the slider is wired up once the scene is built
DoRebuildAsteroidBelt(beltName, newGroupSize) ==
    /\ lastOp # "constructor"
    /\ rebuilds < MaxRebuilds
    /\ lastOp' = "rebuildAsteroidBelt"
    /\ lastArg' = <<beltName, newGroupSize>>
    /\ BuilderBecomes(RebuildAsteroidBelt(Builder, ASTEROID_BELT_DATA, beltName, newGroupSize))
    /\ rebuilds' = rebuilds + 1
    /\ UNCHANGED <<simulationEnabled, steps, ASTEROID_BELT_DATA, textures>>
    /\ seeded' = seeded \cap Ids(celestialBodies')
    /\ UNCHANGED <<shipVars, appVars, flareVars, rotationY>>

\* the engine in use: bodies are registered, seeded and integrated
Next ==
    \/ \E body \in BodyObjects : DoAddBody(body)
    \/ DoInitializeOrbitalVelocities
    \/ \E flag \in BOOLEAN : SetSimulationEnabled(flag)
    \/ \E delta \in Deltas : DoUpdate(delta)

Spec == Init /\ [][Next]_vars

\* the registry operations alone
NextRegistry ==
    \/ \E body \in BodyObjects : DoAddBody(body)
    \/ \E name \in NameArgs : DoRemoveBodyByName(name)
    \/ \E prefix \in PrefixArgs : DoRemoveBodiesByPrefix(prefix)
    \/ DoClearBodies

SpecRegistry == Init /\ [][NextRegistry]_vars

\* bodies to seed: on the X axis, on the Z axis, within the tolerance of
\* either, elsewhere in the XZ plane, on the Y axis, out of the plane, and
\* closer than 0.1 to the origin
SeedPositions ==
    << <<100, 0, 0>>, <<-100, 0, 0>>, <<0, 0, 100>>, <<0, 0, -100>>,
       <<100, 0, 1>>, <<1, 0, 100>>, <<60, 0, 80>>, <<-80, 0, 60>>,
       <<0, 100, 0>>, <<60, 80, 0>>, <<5, 0, 0>> >>

\* the k-th position carries the body of identity 10 + k, which comes with
\* a velocity of its own
SeedBodies ==
    { BodyObject(10 + k, "Planet", Mass(1, 1), SeedPositions[k], <<0, 30, 0>>) :
        k \in 1..Len(SeedPositions) }
    \cup { BodyObject(1, "Sun", Mass(600, 1), <<0, 0, 0>>, <<0, 0, 0>>) }

\* bodies are registered and seeded
NextSeed ==
    \/ \E body \in SeedBodies : AddBodyWithin(body, MaxSeedBodies)
    \/ DoInitializeOrbitalVelocities

SpecSeed == Init /\ [][NextSeed]_vars

\* the factory's fields and arrays take the values the call left, and the
\* caller keeps what it returned
FactoryBecomes(call) ==
    /\ ship' = <<call.result.spaceship>>
    /\ factory' = call.factory
    /\ arrays' = call.arrays
    /\ returned' = Append(returned, [pulsingMaterials |-> call.result.pulsingMaterials,
                                      rotatingParts |-> call.result.rotatingParts])

\* generateNewSpaceship: the factory builds a ship that replaces the last one
DoCreateSpaceship(source) ==
    /\ shipsBuilt < MaxShips
    /\ lastOp' = "createSpaceship"
    /\ lastArg' = <<>>
    /\ FactoryBecomes(FactoryCreateSpaceship(factory, arrays, source, shipsBuilt + 1))
    /\ shipsBuilt' = shipsBuilt + 1
    /\ UNCHANGED radiusAtHeight
    /\ UNCHANGED <<engineVars, builderVars, mainVars, appVars, flareVars>>

NextShip == \E source \in RandomSources : DoCreateSpaceship(source)

\* heights below, at, between, and above the two ends of each body length,
\* and radii that widen, narrow or stay, in thousandths
Heights == {-6000, -4500, -2500, -2000, -1000, 0, 700, 2000, 2500, 4500, 6000}

BodyLengths == {4000, 5000, 9000}

Radii == {500, 1000, 1800}

\* a caller asks for the hull radius at a height
DoGetRadiusAtHeight(yPos, bodyLength, bottomRadius, topRadius) ==
    /\ lastOp' = "getRadiusAtHeight"
    /\ lastArg' = <<yPos, bodyLength, bottomRadius, topRadius>>
    /\ radiusAtHeight' = GetRadiusAtHeight(yPos, bodyLength, bottomRadius, topRadius)
    /\ UNCHANGED <<ship, shipsBuilt, factory, arrays, returned>>
    /\ UNCHANGED <<engineVars, builderVars, mainVars, appVars, flareVars>>

NextRadius ==
    \E yPos \in Heights, bodyLength \in BodyLengths, bottomRadius \in Radii, topRadius \in Radii :
        DoGetRadiusAtHeight(yPos, bodyLength, bottomRadius, topRadius)

SpecRadius == Init /\ [][NextRadius]_vars

---------------------------------------------------------------------------
(* The ship application in use: keys, pointer events, the focus menu, the
   generate button and animation frames, in any order *)

AppBecomes(op, a) ==
    /\ lastOp' = op
    /\ lastArg' = <<>>
    /\ app' = a
    /\ UNCHANGED <<engineVars, builderVars, shipVars, mainVars, flareVars>>

\* keydown P: SolarSystemSimulation.handleKeyDown
KeyDownP == AppBecomes("keydownP", ToggleEditMode(app))

\* keydown R: InputController.handleKeyDown
KeyDownR == AppBecomes("keydownR", HandleKeyDownR(app))

\* what a ray can hit: nothing, a planet, the current ship
Clickable(a) == {NoObject, PlanetMesh, a.currentSpaceship}

\* a left-button pointerdown, on the canvas or on the page around it
PointerDown(onCanvas, hit) ==
    AppBecomes("pointerdown", DispatchPointerDown(app, onCanvas, hit))

\* the "Reset Focus" entry of the planet menu, or button 1 of the gamepad
ResetFocusClick == AppBecomes("resetFocus", ResetFocus(app))

\* a planet of the focus menu: onFocusPlanet
FocusPlanet == AppBecomes("focusPlanet", FocusOnObject(app, PlanetMesh))

\* the generate button, the generate-ship event, or button 3 of the gamepad
GenerateShip ==
    /\ app.generated < MaxGenerated
    /\ AppBecomes("generateNewSpaceship", GenerateNewSpaceship(app))

\* animate(): the camera controller is handed the global edit mode
AnimateFrame == AppBecomes("animateFrame", CameraUpdate(app, app.isEditMode))

NextApp ==
    \/ KeyDownP
    \/ KeyDownR
    \/ \E onCanvas \in BOOLEAN, hit \in Clickable(app) : PointerDown(onCanvas, hit)
    \/ ResetFocusClick
    \/ FocusPlanet
    \/ GenerateShip
    \/ AnimateFrame

SpecApp == Init /\ [][NextApp]_vars

---------------------------------------------------------------------------
(* The flare system on its own: any caller, any lifetimes, any frame times *)

\* the sources of Math.random() the flares are drawn from
FlareSources == {0, ShipScale \div 2}

\* lifetimeMin and lifetimeMax of a call, in thousandths of a second
LifetimeRanges == {<<8, 8>>, <<16, 40>>}

\* the frame times, in thousandths of a second: dt = Math.min(delta, 0.016)
FlareDeltas == {0, 8, 16}

PositiveDeltas == FlareDeltas \ {0}

DoCreateFlare(source, range) ==
    /\ lastOp' = "createFlare"
    /\ lastArg' = <<source, range[1], range[2]>>
    /\ pool' = CreateFlare(pool, FindInactive(pool), Rng(source), range[1], range[2])
    /\ UNCHANGED particleOpacity
    /\ UNCHANGED <<engineVars, builderVars, shipVars, mainVars, appVars>>

DoFlareUpdate(delta) ==
    /\ lastOp' = "flareUpdate"
    /\ lastArg' = <<delta>>
    /\ pool' = FlareUpdate(pool, delta)
    /\ particleOpacity' = OpacityAfter(pool, particleOpacity, delta, 1)
    /\ UNCHANGED <<engineVars, builderVars, shipVars, mainVars, appVars>>

NextFlare ==
    \/ \E source \in FlareSources, range \in LifetimeRanges : DoCreateFlare(source, range)
    \/ \E delta \in FlareDeltas : DoFlareUpdate(delta)

SpecFlare == Init /\ [][NextFlare]_vars

\* animate() calls update(dt) in every frame, and the frames keep coming
FrameWithTime == \E delta \in PositiveDeltas : DoFlareUpdate(delta)

SpecFlareFair == Init /\ [][NextFlare]_vars /\ WF_vars(FrameWithTime)

SpecShip == Init /\ [][NextShip]_vars

\* the scene builder driving the registry
NextBuilder ==
    \/ DoBuildInitialScene
    \/ \E beltName \in BeltNameArgs, newGroupSize \in GroupSizes :
            DoRebuildAsteroidBelt(beltName, newGroupSize)

SpecBuilder == InitBuilder /\ [][NextBuilder]_vars

---------------------------------------------------------------------------
(* The orchestrator (main.js): init builds the scene, then the gravity
   button, the asteroid slider and the animation frames act on it *)

\* a mutant of the handlers: velocities are never re-seeded
ReseedNever(bodies, visited, enabled) ==
    [bodies |-> bodies, seeded |-> visited]

\* if (physicsEngine.simulationEnabled) physicsEngine.initializeOrbitalVelocities():
\* the registry and the bodies visited since they were added, after it
ReseedIfRunning(bodies, visited, enabled) ==
    IF enabled
    THEN [bodies |-> InitializeOrbitalVelocities(bodies), seeded |-> SeededBy(bodies, visited)]
    ELSE [bodies |-> bodies, seeded |-> visited]

\* anchor.rotation.y of an anchor no frame has turned yet is 0
RotationOf(rotation, id) == IF id \in DOMAIN rotation THEN rotation[id] ELSE 0

\* orbit.speed * Config.SOLAR_SYSTEM_ORBIT_SPEED_FACTOR * dt, in millionths
RotationStep(speed, dt) ==
    TDiv(speed[1] * SOLAR_SYSTEM_ORBIT_SPEED_FACTOR * dt * 10000, speed[2] * TimeScale)

RECURSIVE RotateAnchors(_, _, _, _)
\* planetOrbits.forEach(orbit => orbit.anchor.rotation.y += ...), from entry k on
RotateAnchors(rotation, orbits, k, dt) ==
    IF k > Len(orbits) THEN rotation
    ELSE LET id == orbits[k].anchor
         IN RotateAnchors(SetKey(rotation, id,
                                 RotationOf(rotation, id) + RotationStep(orbits[k].speed, dt)),
                          orbits, k + 1, dt)

\* planetOrbitAnchor.add(planetMesh), earthSystemAnchor.add(earthMesh),
\* groupAnchor.add(points): the child keeps the default position in its anchor
ChildLocalPosition == ZeroVec

\* Object3D: a point of the anchor's frame after the anchor's rotation.y, the
\* angle in millionths of a radian and well below 0.01 rad, where
\* cos(a) = 1 - a * a / 2 and sin(a) = a to the millionth
RotateAboutY(v, angle) ==
    LET cosM == 1000000 - (angle * angle) \div 2000000
        sinM == angle
    IN <<TDiv(v[1] * cosM + v[3] * sinM, 1000000), v[2],
         TDiv(v[3] * cosM - v[1] * sinM, 1000000)>>

\* Object3D.getWorldPosition of the child of the anchor `id`, a child of the
\* scene: the anchor's position plus the child's rotated local position
WorldPositionOf(bodies, rotation, id) ==
    LET k == CHOOSE i \in 1..Len(bodies) : bodies[i].id = id
    IN AddVectors(bodies[k].mesh.position,
                  RotateAboutY(ChildLocalPosition, RotationOf(rotation, id)))

\* the click listener of the gravity button
GravityToggleClick ==
    /\ lastOp # "constructor"
    /\ lastOp' = "gravityToggle"
    /\ lastArg' = <<>>
    /\ simulationEnabled' = ~simulationEnabled
    /\ LET after == ReseedIfRunning(celestialBodies, seeded, simulationEnabled')
       IN /\ celestialBodies' = after.bodies
          /\ seeded' = after.seeded
    /\ UNCHANGED <<steps, builderVars, shipVars, appVars, flareVars, rotationY>>

\* the change listener of the asteroid slider
AsteroidSliderChange(newGroupSize) ==
    /\ lastOp # "constructor"
    /\ rebuilds < MaxRebuilds
    /\ lastOp' = "asteroidSliderChange"
    /\ lastArg' = <<newGroupSize>>
    /\ LET st == RebuildAsteroidBelt(Builder, ASTEROID_BELT_DATA, "MainBelt", newGroupSize)
           after == ReseedIfRunning(st.bodies, seeded \cap Ids(st.bodies), simulationEnabled)
       IN /\ BuilderBecomes([st EXCEPT !.bodies = after.bodies])
          /\ seeded' = after.seeded
    /\ rebuilds' = rebuilds + 1
    /\ UNCHANGED <<simulationEnabled, steps, ASTEROID_BELT_DATA, textures>>
    /\ UNCHANGED <<shipVars, appVars, flareVars, rotationY>>

\* animate(): one frame whose clock delta is delta
Animate(delta) ==
    /\ lastOp # "constructor"
    /\ steps < MaxSteps
    /\ lastOp' = "animate"
    /\ lastArg' = <<delta>>
    /\ LET dt == Min(delta, FrameMaxDt)
       IN /\ celestialBodies' = Update(celestialBodies, simulationEnabled, dt)
          /\ rotationY' = IF ~simulationEnabled
                          THEN RotateAnchors(rotationY, planetOrbits, 1, dt)
                          ELSE rotationY
    /\ steps' = steps + 1
    /\ UNCHANGED <<simulationEnabled, builderVars, shipVars, appVars, flareVars, seeded>>

\* the main belt of the configuration, close to the Sun; no texture of
\* another planet is in the texture map, so the registry holds the Sun, the
\* Earth system and the groups of the belt
MainBeltConfigs ==
    { << [BeltData("MainBelt", count, Mass(1, 2), groupSize)
            EXCEPT !.innerRadius = 10 * PosScale, !.outerRadius = 12 * PosScale] >> :
        count \in {3}, groupSize \in {2} }

\* values the slider is released at
SliderValues == {1, 2}

InitMain ==
    /\ Constructed
    /\ ASTEROID_BELT_DATA \in MainBeltConfigs
    /\ textures = {}

NextMain ==
    \/ DoBuildInitialScene
    \/ GravityToggleClick
    \/ \E newGroupSize \in SliderValues : AsteroidSliderChange(newGroupSize)
    \/ \E delta \in Deltas : Animate(delta)

SpecMain == InitMain /\ [][NextMain]_vars

---------------------------------------------------------------------------
(* Helpers of the properties *)

\* the object with this identity as it was when handed to addBody
AsAdded(id) == CHOOSE b \in ValidBodies : b.id = id

Perms(n) == {p \in [1..n -> 1..n] : \A i, j \in 1..n : p[i] = p[j] => i = j}

Permute(bodies, p) == [i \in 1..Len(bodies) |-> bodies[p[i]]]

\* the registry without its k-th body, and where the i-th body is in it
RemoveAt(bodies, k) == SubSeq(bodies, 1, k - 1) \o SubSeq(bodies, k + 1, Len(bodies))

IndexWithout(i, k) == IF i < k THEN i ELSE i - 1

DistanceSq(a, b) == LengthSq(SubVectors(b.position, a.position))

\* this step is an update(delta) call with the simulation enabled
IsUpdateStep(delta) ==
    /\ simulationEnabled
    /\ lastOp' = "update"
    /\ celestialBodies' = Update(celestialBodies, TRUE, delta)

AllFinite(bodies) ==
    \A i \in 1..Len(bodies) :
        /\ IsFinite(bodies[i].position)
        /\ IsFinite(bodies[i].velocity)
        /\ IsFinite(bodies[i].mesh.position)

HasMoved(body) == body.position # AsAdded(body.id).position

---------------------------------------------------------------------------
(* C1: within one update(dt) with the simulation enabled, every new velocity
   is computed from the positions the bodies had when the call started, each
   position then advances by the new velocity, and the result is the same for
   every ordering of the registry. *)
C1_TwoPassOrderIndependent ==
    [][\A delta \in Deltas : IsUpdateStep(delta) =>
        LET dt == Min(delta, MaxDt)
            n == Len(celestialBodies)
        IN /\ \A i \in 1..n : celestialBodies[i].name # "Sun" =>
                /\ celestialBodies'[i].velocity = UpdatedVelocity(celestialBodies, i, dt)
                /\ celestialBodies'[i].position =
                      AddVectors(celestialBodies[i].position,
                                 ScaleVector(celestialBodies'[i].velocity, dt, TimeScale))
           /\ \A p \in Perms(n) :
                Update(Permute(celestialBodies, p), TRUE, delta) = Permute(celestialBodies', p)
      ]_vars

\* two bodies that attract each other have both been moved by an update
C1_Witness ==
    /\ steps >= 1
    /\ \E i, j \in 1..Len(celestialBodies) :
        /\ i # j
        /\ celestialBodies[i].name # "Sun" /\ celestialBodies[j].name # "Sun"
        /\ ~IsZeroMass(celestialBodies[i].mass) /\ ~IsZeroMass(celestialBodies[j].mass)
        /\ HasMoved(celestialBodies[i]) /\ HasMoved(celestialBodies[j])
        /\ DistanceSq(celestialBodies[i], celestialBodies[j]) >= EpsilonSq

(* C2: the body named "Sun" keeps the position, the velocity and the handle
   position it was added with, whatever update and initializeOrbitalVelocities
   calls are made, and in every update the net force on each other body is the
   force of the rest plus the Sun's pair term. *)
C2_AnchorInvariant ==
    [][/\ \A i \in 1..Len(celestialBodies') : celestialBodies'[i].name = "Sun" =>
            /\ celestialBodies'[i].position = AsAdded(celestialBodies'[i].id).position
            /\ celestialBodies'[i].velocity = AsAdded(celestialBodies'[i].id).velocity
            /\ celestialBodies'[i].mesh.position = AsAdded(celestialBodies'[i].id).mesh.position
       /\ \A delta \in Deltas : IsUpdateStep(delta) =>
            \A i, s \in 1..Len(celestialBodies) :
                (/\ celestialBodies[s].name = "Sun"
                 /\ celestialBodies[i].name # "Sun"
                 /\ ~IsZeroMass(celestialBodies[i].mass)) =>
                    LET bodyI == celestialBodies[i]
                        others == RemoveAt(celestialBodies, s)
                        force == AddVectors(NetForce(others, IndexWithout(i, s)),
                                            PairForce(bodyI, celestialBodies[s]))
                        acceleration == ScaleVector(force, bodyI.mass[2], bodyI.mass[1])
                    IN celestialBodies'[i].velocity =
                         AddVectors(bodyI.velocity,
                                    ScaleVector(acceleration, Min(delta, MaxDt), TimeScale))
      ]_vars

\* an update has moved a body that the Sun attracts, the Sun being registered
C2_Witness ==
    /\ steps >= 2
    /\ \E s, i \in 1..Len(celestialBodies) :
        /\ celestialBodies[s].name = "Sun"
        /\ celestialBodies[i].name # "Sun"
        /\ HasMoved(celestialBodies[i])
        /\ PairForce(celestialBodies[i], celestialBodies[s]) # ZeroVec

(* C6: in an update no pair whose squared distance is below 0.01 adds a force:
   each body's new velocity is what it would be with the close body absent,
   and a registry holding bodies at identical positions comes out of update
   with every position and velocity finite. *)
C6_SingularitySafe ==
    [][\A delta \in Deltas : IsUpdateStep(delta) /\ AllFinite(celestialBodies) =>
        /\ AllFinite(celestialBodies')
        /\ \A i, j \in 1..Len(celestialBodies) :
            (/\ i # j
             /\ celestialBodies[i].name # "Sun"
             /\ DistanceSq(celestialBodies[i], celestialBodies[j]) < EpsilonSq) =>
                celestialBodies'[i].velocity =
                    UpdatedVelocity(RemoveAt(celestialBodies, j), IndexWithout(i, j),
                                    Min(delta, MaxDt))
      ]_vars

\* update has just run on two bodies with mass at one and the same position
C6_Witness ==
    /\ lastOp = "update"
    /\ simulationEnabled
    /\ \E i, j \in 1..Len(celestialBodies) :
        /\ i # j
        /\ celestialBodies[i].position = celestialBodies[j].position
        /\ celestialBodies[i].name # "Sun" /\ celestialBodies[j].name # "Sun"
        /\ ~IsZeroMass(celestialBodies[i].mass) /\ ~IsZeroMass(celestialBodies[j].mass)

(* C7: a non-anchor body of mass 0 keeps its velocity through update, nothing
   is divided by its mass (no velocity becomes NaN), and every other body's
   new velocity is what it would be with the zero-mass body absent. *)
C7_ZeroMassSkipped ==
    [][\A delta \in Deltas : IsUpdateStep(delta) /\ AllFinite(celestialBodies) =>
        \A k \in 1..Len(celestialBodies) :
            (celestialBodies[k].name # "Sun" /\ IsZeroMass(celestialBodies[k].mass)) =>
                /\ celestialBodies'[k].velocity = celestialBodies[k].velocity
                /\ \A i \in 1..Len(celestialBodies) :
                    (i # k /\ celestialBodies[i].name # "Sun") =>
                        /\ IsFinite(celestialBodies'[i].velocity)
                        /\ celestialBodies'[i].velocity =
                             UpdatedVelocity(RemoveAt(celestialBodies, k), IndexWithout(i, k),
                                             Min(delta, MaxDt))
      ]_vars

\* update has just run on a zero-mass body and a body with mass
C7_Witness ==
    /\ lastOp = "update"
    /\ simulationEnabled
    /\ \E k, i \in 1..Len(celestialBodies) :
        /\ celestialBodies[k].name # "Sun" /\ IsZeroMass(celestialBodies[k].mass)
        /\ celestialBodies[i].name # "Sun" /\ ~IsZeroMass(celestialBodies[i].mass)

---------------------------------------------------------------------------
(* addBody's validation *)

(* C8, as amended: addBody(body) with a body that is null or undefined, or
   whose name, mesh, position or velocity is missing, or whose mass is
   undefined, leaves the registry exactly as it was; with a body that has
   all five it appends that body as the last element and changes no other
   element. *)
C8_AddBodyValidates ==
    [][\A body \in BodyObjects : DoAddBody(body) =>
        IF \/ ~body.isObject \/ body.name = "" \/ ~body.hasMesh
           \/ ~body.hasMass \/ ~body.hasPosition \/ ~body.hasVelocity
        THEN celestialBodies' = celestialBodies
        ELSE /\ Len(celestialBodies') = Len(celestialBodies) + 1
             /\ celestialBodies'[Len(celestialBodies')] = body
             /\ \A i \in 1..Len(celestialBodies) : celestialBodies'[i] = celestialBodies[i]
      ]_vars

(* C8 as stated: a body lacking a name, a mass, a position or a velocity
   (or null) leaves the registry as it was; a body that has these four is
   appended as the last element. *)
C8_Original ==
    [][\A body \in BodyObjects : DoAddBody(body) =>
        IF \/ ~body.isObject \/ body.name = ""
           \/ ~body.hasMass \/ ~body.hasPosition \/ ~body.hasVelocity
        THEN celestialBodies' = celestialBodies
        ELSE /\ Len(celestialBodies') = Len(celestialBodies) + 1
             /\ celestialBodies'[Len(celestialBodies')] = body
             /\ \A i \in 1..Len(celestialBodies) : celestialBodies'[i] = celestialBodies[i]
      ]_vars

\* addBody has just been called on a non-empty registry with a body that has
\* a name, a mass, a position and a velocity but no mesh
C8_Witness ==
    /\ lastOp = "addBody"
    /\ Len(lastArg) = 1
    /\ lastArg[1].isObject /\ lastArg[1].name # "" /\ ~lastArg[1].hasMesh
    /\ Len(celestialBodies) = 1

(* C9, as amended: after any sequence of addBody, removeBodyByName,
   removeBodiesByPrefix and clearBodies calls, every body in the registry
   has a mass that is not undefined (addBody rejects a body without a mass;
   a mass of zero is accepted). *)
C9_MassDefined ==
    \A i \in 1..Len(celestialBodies) : celestialBodies[i].hasMass

(* C9 as stated: after any sequence of registry calls every body in the
   registry has mass > 0. *)
C9_Original ==
    \A i \in 1..Len(celestialBodies) :
        /\ celestialBodies[i].hasMass
        /\ celestialBodies[i].mass[1] > 0

\* a removal has run and a body of mass zero is in the registry
C9_Witness ==
    /\ lastOp \in {"removeBodyByName", "removeBodiesByPrefix"}
    /\ \E i \in 1..Len(celestialBodies) :
        celestialBodies[i].hasMass /\ IsZeroMass(celestialBodies[i].mass)

---------------------------------------------------------------------------
(* The asteroid belt's groups *)

RECURSIVE GCD(_, _)
GCD(a, b) == IF b = 0 THEN a ELSE GCD(b, a % b)

\* the sum of two fractions, in lowest terms
FracAdd(a, b) ==
    LET n == a[1] * b[2] + b[1] * a[2]
        d == a[2] * b[2]
        g == GCD(Abs(n), Abs(d))
    IN IF g = 0 THEN <<n, d>> ELSE <<n \div g, d \div g>>

FracEq(a, b) == a[2] # 0 /\ b[2] # 0 /\ a[1] * b[2] = b[1] * a[2]

RECURSIVE MassSum(_)
\* the sum of the masses of a sequence of bodies
MassSum(bodies) ==
    IF bodies = <<>> THEN <<0, 1>>
    ELSE FracAdd(Head(bodies).mass, MassSum(Tail(bodies)))

RECURSIVE PointsSum(_)
\* the number of points held by a sequence of group anchors
PointsSum(anchors) ==
    IF anchors = <<>> THEN 0 ELSE Head(anchors).points + PointsSum(Tail(anchors))

\* identities of the group anchors the builder holds for a belt
AnchorIds(anchors, beltName) ==
    IF beltName \in DOMAIN anchors
    THEN {anchors[beltName][k].id : k \in 1..Len(anchors[beltName])}
    ELSE {}

\* the bodies of the registry whose identity is in ids, in order
BodiesWithIds(bodies, ids) ==
    LET in(b) == b.id \in ids IN SelectSeq(bodies, in)

\* what one run of _createAsteroidBeltGroups(beltData, N) must have added:
\* ceil(count / N) bodies whose masses sum to totalMass, with count points
GroupsAsClaimed(beltData, N, added, anchors) ==
    /\ Len(added) * N >= beltData.count
    /\ (Len(added) - 1) * N < beltData.count
    /\ FracEq(MassSum(added), beltData.totalMass)
    /\ Len(anchors) = Len(added)
    /\ PointsSum(anchors) = beltData.count
    /\ \A k \in 1..Len(anchors) :
          anchors[k].points = IF k < Len(anchors) THEN N
                              ELSE beltData.count - (Len(anchors) - 1) * N

(* C3: after rebuildAsteroidBelt(beltName, N) none of the group bodies the
   belt had in the registry before the call is still in the registry, and
   every body that is not a group body of that belt is still there,
   unchanged. *)
C3_RebuildRemovesPriorGroups ==
    [][\A beltName \in BeltNameArgs, N \in GroupSizes :
        (DoRebuildAsteroidBelt(beltName, N) /\ FindBelt(ASTEROID_BELT_DATA, beltName) # 0) =>
            LET prior == AnchorIds(asteroidGroupAnchors, beltName)
                others == BodiesWithIds(celestialBodies, Ids(celestialBodies) \ prior)
            IN /\ \A i \in 1..Len(celestialBodies') : celestialBodies'[i].id \notin prior
               /\ BodiesWithIds(celestialBodies', Ids(celestialBodies) \ prior) = others
      ]_vars

(* C4: for every group size N >= 1 one run of _createAsteroidBeltGroups(beltData, N),
   from buildInitialScene or from rebuildAsteroidBelt, adds exactly
   ceil(beltData.count / N) bodies to the registry, their masses sum to
   beltData.totalMass, and the points of the groups sum to beltData.count,
   the last group holding the remainder. *)
C4_GroupsPartitionBelt ==
    [][/\ \A beltName \in BeltNameArgs, N \in GroupSizes :
            (DoRebuildAsteroidBelt(beltName, N) /\ FindBelt(ASTEROID_BELT_DATA, beltName) # 0) =>
                GroupsAsClaimed(
                    ASTEROID_BELT_DATA[FindBelt(ASTEROID_BELT_DATA, beltName)], N,
                    BodiesWithIds(celestialBodies', Ids(celestialBodies') \ Ids(celestialBodies)),
                    asteroidGroupAnchors'[beltName])
       /\ DoBuildInitialScene =>
            \A k \in 1..Len(ASTEROID_BELT_DATA) :
                LET beltData == ASTEROID_BELT_DATA[k] IN
                GroupsAsClaimed(
                    beltData, beltData.groupSize,
                    BodiesWithIds(celestialBodies', AnchorIds(asteroidGroupAnchors', beltData.name)),
                    asteroidGroupAnchors'[beltData.name])
      ]_vars

\* a belt of several points has just been rebuilt with a group size that
\* does not divide its count: the last group holds a remainder
C4_Witness ==
    /\ lastOp = "rebuildAsteroidBelt"
    /\ Len(lastArg) = 2
    /\ FindBelt(ASTEROID_BELT_DATA, lastArg[1]) # 0
    /\ LET anchors == asteroidGroupAnchors[lastArg[1]] IN
        /\ Len(anchors) >= 2
        /\ anchors[Len(anchors)].points < lastArg[2]

(* C10: after any sequence of buildInitialScene and rebuildAsteroidBelt calls
   no two bodies in the registry have the same name. *)
C10_UniqueNames ==
    \A i, j \in 1..Len(celestialBodies) :
        i # j => celestialBodies[i].name # celestialBodies[j].name

---------------------------------------------------------------------------
(* The ship's parts and its hull *)

\* the hull radius at the height of a part of ship s
HullRadiusAt(s, part) ==
    GetRadiusAtHeight(part.y, s.body.length, s.body.bottomRadius, s.body.topRadius)

PartsOf(parts) == {parts[i] : i \in 1..Len(parts)}

(* C5, as amended: on every ship createSpaceship produces, every pod, antenna
   and decorative detail is attached at a distance from the hull's long axis
   that is at least getRadiusAtHeight at the part's height (pods strictly
   outside, antennas and details on the surface), and every wing is attached
   at 0.95 times that radius, slightly inside the hull. *)
C5_PartsOnOrOutsideHullWingsEmbedded ==
    \A k \in 1..Len(ship) :
        LET s == ship[k] IN
        /\ \A part \in PartsOf(s.pods) : part.radial > HullRadiusAt(s, part)
        /\ \A part \in PartsOf(s.antennas) \cup PartsOf(s.details) :
              part.radial >= HullRadiusAt(s, part)
        /\ \A part \in PartsOf(s.wings) :
              /\ 100 * part.radial <= 95 * HullRadiusAt(s, part)
              /\ 100 * (part.radial + 1) > 95 * HullRadiusAt(s, part)

(* C5 as stated: every wing, pod, antenna and detail of every ship is
   attached at a distance from the long axis that is at least
   getRadiusAtHeight at the part's height. *)
C5_Original ==
    \A k \in 1..Len(ship) :
        LET s == ship[k] IN
        \A part \in PartsOf(s.wings) \cup PartsOf(s.pods)
                    \cup PartsOf(s.antennas) \cup PartsOf(s.details) :
            part.radial >= HullRadiusAt(s, part)

\* a ship with a hull whose radius varies along its length, carrying wings,
\* pods, an antenna and a detail
C5_Witness ==
    /\ lastOp = "createSpaceship"
    /\ Len(ship) = 1
    /\ ship[1].body.topRadius # ship[1].body.bottomRadius
    /\ ship[1].wings # <<>>
    /\ ship[1].pods # <<>>
    /\ ship[1].antennas # <<>>
    /\ ship[1].details # <<>>

---------------------------------------------------------------------------
(* Seeding of the orbital velocities *)

Dot(a, b) == a[1] * b[1] + a[2] * b[2] + a[3] * b[3]

\* the Y component of position x velocity: its sign is the sense in which
\* the body circulates about the Y axis
AngularMomentumY(body) ==
    body.position[3] * body.velocity[1] - body.position[1] * body.velocity[3]

\* this step is an initializeOrbitalVelocities call that found the Sun
IsSeedStep ==
    /\ lastOp' = "initializeOrbitalVelocities"
    /\ GetBodyByName(celestialBodies, "Sun") # 0

\* body is not the anchor and is at distance >= 0.1 from the origin
IsSeedable(body) ==
    body.name # "Sun" /\ LengthSq(body.position) >= MinOrbitRadius * MinOrbitRadius

(* C11: initializeOrbitalVelocities gives every non-anchor body that lies in
   the XZ plane at distance >= 0.1 from the origin a non-zero velocity with
   zero Y component that is perpendicular to its position (the dot product
   is zero, up to the truncation of the two components), on the X axis and
   on the Z axis too. *)
C11_SeedIsTangential ==
    [][IsSeedStep =>
        \A i \in 1..Len(celestialBodies) :
            (IsSeedable(celestialBodies[i]) /\ celestialBodies[i].position[2] = 0) =>
                LET position == celestialBodies[i].position
                    velocity == celestialBodies'[i].velocity
                IN /\ velocity # ZeroVec
                   /\ velocity[2] = 0
                   /\ Abs(Dot(position, velocity)) <= Abs(position[1]) + Abs(position[3])
      ]_vars

(* C12: initializeOrbitalVelocities gives a body at radius >= 0.1 on the
   world X axis (|y| and |z| within the tolerance) the velocity (0, 0, -v),
   every other body at radius >= 0.1 the velocity v * normalize((-z, 0, x)),
   and all seeded bodies circulate in the same sense about the Y axis. *)
C12_TangentByXAxisTest ==
    [][IsSeedStep =>
        LET sunMass == celestialBodies[GetBodyByName(celestialBodies, "Sun")].mass
            orbiting == {i \in 1..Len(celestialBodies) : IsSeedable(celestialBodies[i])}
        IN /\ \A i \in orbiting :
                LET position == celestialBodies[i].position
                    speed == OrbitalSpeed(sunMass, Length(position))
                IN celestialBodies'[i].velocity =
                     IF Abs(position[2]) <= AxisTolerance /\ Abs(position[3]) <= AxisTolerance
                     THEN <<0, 0, -speed>>
                     ELSE Tangent(position, speed)
           /\ \A i, j \in orbiting :
                AngularMomentumY(celestialBodies'[i]) * AngularMomentumY(celestialBodies'[j]) >= 0
      ]_vars

---------------------------------------------------------------------------
(* C14: after an update with the simulation enabled the handle of every body
   other than the Sun holds the body's position and is otherwise as it was,
   the Sun's handle is untouched, and the positions and velocities that come
   out do not depend on what the handles held. *)
BlankHandles(bodies) ==
    [i \in 1..Len(bodies) |->
        [bodies[i] EXCEPT !.mesh = [name |-> "", position |-> ZeroVec]]]

C14_HandleFollowsPosition ==
    [][\A delta \in Deltas : IsUpdateStep(delta) =>
        LET blind == Update(BlankHandles(celestialBodies), TRUE, delta) IN
        \A i \in 1..Len(celestialBodies) :
            /\ celestialBodies[i].name # "Sun" =>
                    /\ celestialBodies'[i].mesh.position = celestialBodies'[i].position
                    /\ celestialBodies'[i].mesh.name = celestialBodies[i].mesh.name
            /\ celestialBodies[i].name = "Sun" =>
                    celestialBodies'[i].mesh = celestialBodies[i].mesh
            /\ celestialBodies'[i].position = blind[i].position
            /\ celestialBodies'[i].velocity = blind[i].velocity
      ]_vars

\* an update has moved a body whose handle was not at the body's position
C14_Witness ==
    /\ lastOp = "update"
    /\ simulationEnabled
    /\ \E i \in 1..Len(celestialBodies) :
        /\ celestialBodies[i].name # "Sun"
        /\ HasMoved(celestialBodies[i])
        /\ AsAdded(celestialBodies[i].id).mesh.position # AsAdded(celestialBodies[i].id).position
        /\ celestialBodies[i].mesh.position = celestialBodies[i].position

(* C15: an update(delta) made while simulationEnabled is false leaves the
   registry, every position, every velocity and every handle as they were. *)
C15_DisabledUpdateIsNoOp ==
    [][(lastOp' = "update" /\ ~simulationEnabled) =>
            celestialBodies' = celestialBodies]_vars

\* an update was made with the simulation disabled on a registry that an
\* integration step would have changed
C15_Witness ==
    /\ lastOp = "update"
    /\ ~simulationEnabled
    /\ \A delta \in Deltas :
            Integrate(celestialBodies, Min(delta, MaxDt)) # celestialBodies

(* C16 as amended: update(delta) integrates with dt = min(delta, 0.016 s):
   from the same state every call with delta >= 0.016 s produces the state of
   a step of exactly 0.016 s, in which each new position is the old one plus
   0.016 s of the new velocity, and a smaller delta is used as it is. *)
C16_ClampAtSixteenMs ==
    [][\A delta \in Deltas : IsUpdateStep(delta) =>
        /\ delta >= MaxDt =>
            /\ celestialBodies' = Integrate(celestialBodies, MaxDt)
            /\ \A other \in Deltas : other >= MaxDt =>
                    celestialBodies' = Update(celestialBodies, TRUE, other)
            /\ \A i \in 1..Len(celestialBodies) : celestialBodies[i].name # "Sun" =>
                    celestialBodies'[i].position =
                        AddVectors(celestialBodies[i].position,
                                   ScaleVector(celestialBodies'[i].velocity, MaxDt, TimeScale))
        /\ delta < MaxDt => celestialBodies' = Integrate(celestialBodies, delta)
      ]_vars

(* C16: update(delta) integrates with dt = min(delta, 1/60 s), so every call
   with delta >= 1/60 s produces the state of a step of exactly 1/60 s. *)
C16_Original ==
    [][\A delta \in Deltas : IsUpdateStep(delta) =>
        celestialBodies' = Integrate(celestialBodies, Min(delta, TimeScale \div 60))
      ]_vars

\* an update with a delta above 1/60 s has moved a body, and from the state
\* it produced the steps of 0.016 s, of 1/60 s and of delta differ
C16_Witness ==
    /\ lastOp = "update"
    /\ lastArg[1] > TimeScale \div 60
    /\ simulationEnabled
    /\ \E i \in 1..Len(celestialBodies) :
            celestialBodies[i].name # "Sun" /\ HasMoved(celestialBodies[i])
    /\ Integrate(celestialBodies, MaxDt) # Integrate(celestialBodies, TimeScale \div 60)
    /\ Integrate(celestialBodies, MaxDt) # Integrate(celestialBodies, lastArg[1])

---------------------------------------------------------------------------
(* C13: in the orchestrator, whatever the interleaving of gravity clicks,
   slider changes and frames, every frame whose update runs with the
   simulation enabled integrates only bodies that initializeOrbitalVelocities
   visited after they were added: a click that enables gravity and a slider
   change made while gravity is on leave every registered body seeded. *)
C13_UpdateOnlySeededBodies ==
    [][/\ (lastOp' = "animate" /\ simulationEnabled) =>
            \A i \in BodiesToUpdate(celestialBodies) : celestialBodies[i].id \in seeded
       /\ (lastOp' = "gravityToggle" /\ simulationEnabled') =>
            seeded' = Ids(celestialBodies')
       /\ (lastOp' = "asteroidSliderChange" /\ simulationEnabled) =>
            seeded' = Ids(celestialBodies')
       /\ simulationEnabled' => Ids(celestialBodies') \subseteq seeded'
      ]_vars

\* a frame has integrated, with gravity on, a registry that a slider change
\* has given new groups: the newest group is seeded and travelling
C13_Witness ==
    /\ lastOp = "animate"
    /\ simulationEnabled
    /\ rebuilds >= 1
    /\ LET newest == celestialBodies[Len(celestialBodies)]
       IN /\ StartsWith(newest.name, "MainBelt_Group_")
          /\ newest.id \in seeded
          /\ newest.velocity # ZeroVec
          /\ newest.mesh.position = newest.position

---------------------------------------------------------------------------
(* C17: after every createSpaceship call the rotatingParts list it returned
   holds exactly the dish assemblies of the ship it built, one entry per dish
   antenna and none for a rod, its pulsingMaterials list holds only the nozzle
   material of that ship, and the call leaves every list returned by an
   earlier call as it was. *)
DishesOf(s) ==
    {i \in 1..Len(s.antennas) : s.antennas[i].kind = "dishAntenna"}

C17_AnimationListsOfLastShipOnly ==
    [][lastOp' = "createSpaceship" /\ shipsBuilt' = shipsBuilt + 1 =>
        LET s == ship'[1]
            n == shipsBuilt'
            last == returned'[Len(returned')]
            rotatingParts == arrays'[last.rotatingParts]
            pulsingMaterials == arrays'[last.pulsingMaterials]
        IN /\ last.rotatingParts = factory'.rotatingParts
           /\ last.pulsingMaterials = factory'.pulsingMaterials
           /\ Len(rotatingParts) = Cardinality(DishesOf(s))
           /\ PartsOf(rotatingParts) = {DishOf(n, i) : i \in DishesOf(s)}
           /\ PartsOf(pulsingMaterials) \subseteq {NozzleOf(n)}
           /\ \A k \in 1..Len(returned) :
                /\ arrays'[returned[k].rotatingParts] = arrays[returned[k].rotatingParts]
                /\ arrays'[returned[k].pulsingMaterials] = arrays[returned[k].pulsingMaterials]
      ]_vars

\* a second ship with a dish and a rod was built after a first ship whose
\* returned lists hold a dish and a nozzle material
C17_Witness ==
    /\ lastOp = "createSpaceship"
    /\ shipsBuilt = 2
    /\ arrays[returned[1].rotatingParts] # <<>>
    /\ arrays[returned[1].pulsingMaterials] # <<>>
    /\ DishesOf(ship[1]) # {}
    /\ DishesOf(ship[1]) # 1..Len(ship[1].antennas)
    /\ arrays[returned[2].pulsingMaterials] # <<>>

(* C18: on every ship createSpaceship produces, the colour of every material
   of every mesh, and every emissive colour such a material was given, is one
   of the five colours (primary, secondary, accent, metallic, nozzle) of the
   palette selected for the ship. *)
PaletteColors(palette) ==
    {palette.primary, palette.secondary, palette.accent, palette.metallic, palette.nozzle}

MeshMaterials(s) ==
    s.body.materials \cup s.noseCone.materials
    \cup UNION {part.materials : part \in PartsOf(s.wings) \cup PartsOf(s.engines)
                                      \cup PartsOf(s.antennas) \cup PartsOf(s.pods)
                                      \cup PartsOf(s.details)}

C18_PaletteCoherence ==
    \A k \in 1..Len(ship) :
        /\ \E p \in 1..Len(palettes) : ship[k].palette = palettes[p]
        /\ \A material \in MeshMaterials(ship[k]) :
            /\ material.color \in PaletteColors(ship[k].palette)
            /\ material.emissive \subseteq PaletteColors(ship[k].palette)

\* a ship whose meshes use all five materials, the glowing nozzle included,
\* of a palette other than the first
C18_Witness ==
    /\ lastOp = "createSpaceship"
    /\ Len(ship) = 1
    /\ ship[1].palette # palettes[1]
    /\ {material.slot : material \in MeshMaterials(ship[1])}
            = {"primary", "secondary", "accent", "metallic", "nozzle"}
    /\ \E material \in MeshMaterials(ship[1]) : material.emissive # {}

(* C19: every ship createSpaceship produces has 1 to 4 engine units, 0 to 4
   antennas, 0, 2 or 4 pods, 0, 2, 3 or 4 wings, and a hull that is exactly
   one of tapered cylinder, capsule, sphere and two-segment. *)
C19_PartCounts ==
    \A k \in 1..Len(ship) :
        /\ Len(ship[k].engines) \in 1..4
        /\ Len(ship[k].antennas) \in 0..4
        /\ Len(ship[k].pods) \in {0, 2, 4}
        /\ Len(ship[k].wings) \in {0, 2, 3, 4}
        /\ ship[k].body.shape \in {"tapered", "capsule", "sphere", "multiSegment"}
        /\ ship[k].body.meshes = IF ship[k].body.shape = "multiSegment" THEN 2 ELSE 1

\* a ship at the upper ends: four antennas, four pods, four wings and more
\* than one engine unit
C19_Witness ==
    /\ lastOp = "createSpaceship"
    /\ Len(ship) = 1
    /\ Len(ship[1].engines) >= 2
    /\ Len(ship[1].antennas) = 4
    /\ Len(ship[1].pods) = 4
    /\ Len(ship[1].wings) = 4

---------------------------------------------------------------------------
(* C20: for every height y and every body length L > 0,
   getRadiusAtHeight(y, L, bottom, top) is bottom + (top - bottom) *
   clamp((y + L / 2) / L, 0, 1), to the thousandth: bottom for y <= -L / 2,
   top for y >= L / 2, and a value between the two radii otherwise. *)
Clamp(x, low, high) == IF x < low THEN low ELSE IF x > high THEN high ELSE x

C20_RadiusInterpolatesClamped ==
    lastOp = "getRadiusAtHeight" =>
        LET y == lastArg[1]
            L == lastArg[2]
            bottom == lastArg[3]
            top == lastArg[4]
            \* (y + L / 2) / L over the denominator 2 * L, clamped to [0, 1]
            ratio == Clamp(2 * y + L, 0, 2 * L)
            exact == bottom * 2 * L + (top - bottom) * ratio
        IN /\ Abs(radiusAtHeight * 2 * L - exact) < 2 * L
           /\ 2 * y <= -L => radiusAtHeight = bottom
           /\ 2 * y >= L => radiusAtHeight = top
           /\ Min(bottom, top) <= radiusAtHeight
           /\ radiusAtHeight <= Max(bottom, top)

\* the radius was asked above the top of a hull that narrows, and strictly
\* inside a hull that widens
C20_Witness ==
    /\ lastOp = "getRadiusAtHeight"
    /\ \/ /\ 2 * lastArg[1] > lastArg[2]
          /\ lastArg[4] < lastArg[3]
          /\ radiusAtHeight = lastArg[4]
       \/ /\ 2 * lastArg[1] < lastArg[2]
          /\ 2 * lastArg[1] > -lastArg[2]
          /\ lastArg[3] < radiusAtHeight
          /\ radiusAtHeight < lastArg[4]

---------------------------------------------------------------------------
\* two fractions of a turn are the same angle
SameTurn(a, b) == a[1] * b[2] = b[1] * a[2]

\* the instances of a group stand at the angles 2 * pi * i / count, at one
\* radial distance and one height
EvenlySpaced(group) ==
    \A k \in 1..Len(group) :
        /\ SameTurn(group[k].turn, <<k - 1, Len(group)>>)
        /\ group[k].radial = group[1].radial
        /\ group[k].y = group[1].y

\* every instance of the group was given rotation.y = -angle
FacesOutward(group) ==
    \A k \in 1..Len(group) : SameTurn(group[k].rotationY, <<-(k - 1), Len(group)>>)

\* the engine units when there are several, no units otherwise
EngineSet(s) == IF Len(s.engines) > 1 THEN s.engines ELSE <<>>

(* C21, as amended: the wings, the engines when there are several, and the
   pods stand at the angles 2 * pi * i / count around the long axis, the
   instances of a group at the same radial distance and height; every wing
   and every pod is given rotation.y = -angle, and the rotation.y of an
   engine unit is left at 0. *)
C21_SymmetricGroups ==
    ship # <<>> =>
        /\ EvenlySpaced(ship[1].wings) /\ FacesOutward(ship[1].wings)
        /\ EvenlySpaced(ship[1].pods) /\ FacesOutward(ship[1].pods)
        /\ EvenlySpaced(EngineSet(ship[1]))
        /\ \A k \in 1..Len(ship[1].engines) :
              SameTurn(ship[1].engines[k].rotationY, NoTurn)

(* C21, as stated: in each of the three groups, engines included when
   there are several, instance i is at angle 2 * pi * i / count and is
   given rotation.y = -angle. *)
C21_Original ==
    ship # <<>> =>
        /\ EvenlySpaced(ship[1].wings) /\ FacesOutward(ship[1].wings)
        /\ EvenlySpaced(ship[1].pods) /\ FacesOutward(ship[1].pods)
        /\ EvenlySpaced(EngineSet(ship[1])) /\ FacesOutward(EngineSet(ship[1]))

\* a ship with three wings or more, several engines and pods
C21_Witness ==
    /\ ship # <<>>
    /\ Len(ship[1].wings) >= 3
    /\ Len(ship[1].engines) >= 2
    /\ Len(ship[1].pods) >= 2

---------------------------------------------------------------------------
(* C22: while the gravity simulation is disabled, each animation frame moves
   every planet and every asteroid group along a circle around the Sun:
   its world position changes in the frame and its distance from the
   origin does not. *)
C22_SimpleOrbitsMove ==
    [][(lastOp' = "animate" /\ ~simulationEnabled) =>
          \A k \in 1..Len(planetOrbits) :
              LET id == planetOrbits[k].anchor IN
              id \in Ids(celestialBodies) =>
                  /\ WorldPositionOf(celestialBodies', rotationY', id)
                        # WorldPositionOf(celestialBodies, rotationY, id)
                  /\ LengthSq(WorldPositionOf(celestialBodies', rotationY', id))
                        = LengthSq(WorldPositionOf(celestialBodies, rotationY, id))]_vars

---------------------------------------------------------------------------
\* the indices of the bodies other than the Sun whose mass is zero
Massless(bodies) ==
    {i \in 1..Len(bodies) : bodies[i].name # "Sun" /\ IsZeroMass(bodies[i].mass)}

(* C23, as amended: update() with the simulation enabled never changes the
   velocity of a body of mass zero other than the Sun, and moves the body
   and its handle to position + velocity * dt: the body stays where it was
   exactly when that displacement is zero. *)
C23_MasslessDriftsAtItsVelocity ==
    [][(lastOp' = "update" /\ simulationEnabled) =>
          \A i \in Massless(celestialBodies) :
              LET dt == Min(lastArg'[1], MaxDt)
                  moved == AddVectors(celestialBodies[i].position,
                                      ScaleVector(celestialBodies[i].velocity, dt, TimeScale))
              IN /\ celestialBodies'[i].velocity = celestialBodies[i].velocity
                 /\ celestialBodies'[i].position = moved
                 /\ celestialBodies'[i].mesh.position = moved]_vars

(* C23, as stated: a body of mass zero other than the Sun never moves: an
   update() with the simulation enabled leaves its position and the
   position of its handle as they were. *)
C23_Original ==
    [][(lastOp' = "update" /\ simulationEnabled) =>
          \A i \in Massless(celestialBodies) :
              /\ celestialBodies'[i].position = celestialBodies[i].position
              /\ celestialBodies'[i].mesh.position = celestialBodies[i].mesh.position]_vars

\* an update with the simulation enabled has moved a body of mass zero away
\* from where it was registered
C23_Witness ==
    /\ lastOp = "update"
    /\ simulationEnabled
    /\ \E i \in Massless(celestialBodies) :
          /\ celestialBodies[i].position # AsAdded(celestialBodies[i].id).position
          /\ celestialBodies[i].mesh.position = celestialBodies[i].position

---------------------------------------------------------------------------
\* the object with this identity as it was when handed to addBody
AsSeedBody(id) == CHOOSE b \in SeedBodies : b.id = id

\* body is not the anchor and is closer than 0.1 to the origin
IsDegenerate(body) ==
    body.name # "Sun" /\ LengthSq(body.position) < MinOrbitRadius * MinOrbitRadius

\* the registry without the bodies closer than 0.1 to the origin
WithoutDegenerate(bodies) == SelectSeq(bodies, LAMBDA b : ~IsDegenerate(b))

\* the velocity a call gives the body of this identity in this registry
VelocityGiven(bodies, id) ==
    LET after == InitializeOrbitalVelocities(bodies)
    IN after[CHOOSE k \in 1..Len(after) : after[k].id = id].velocity

(* C24: initializeOrbitalVelocities sets the velocity of every non-anchor
   body closer than 0.1 to the origin to (0, 0, 0) and gives every other
   non-anchor body, in the same call, the velocity it would give it were the
   close bodies not registered; no vector comes out NaN; and without a body
   named "Sun" the call changes no velocity. *)
C24_DegenerateRadiusIsZeroed ==
    [][lastOp' = "initializeOrbitalVelocities" =>
          IF GetBodyByName(celestialBodies, "Sun") = 0
          THEN celestialBodies' = celestialBodies
          ELSE /\ Len(celestialBodies') = Len(celestialBodies)
               /\ AllFinite(celestialBodies')
               /\ \A i \in 1..Len(celestialBodies) :
                     LET body == celestialBodies[i] IN
                     /\ IsDegenerate(body) => celestialBodies'[i].velocity = ZeroVec
                     /\ IsSeedable(body) =>
                           celestialBodies'[i].velocity
                             = VelocityGiven(WithoutDegenerate(celestialBodies), body.id)
      ]_vars

\* a call found the Sun, a moving body closer than 0.1 to the origin and,
\* after it in the registry, a body it gave a velocity other than the one
\* the body came with
C24_Witness ==
    /\ lastOp = "initializeOrbitalVelocities"
    /\ GetBodyByName(celestialBodies, "Sun") # 0
    /\ \E i, j \in 1..Len(celestialBodies) :
          /\ i < j
          /\ IsDegenerate(celestialBodies[i])
          /\ AsSeedBody(celestialBodies[i].id).velocity # ZeroVec
          /\ celestialBodies[i].velocity = ZeroVec
          /\ IsSeedable(celestialBodies[j])
          /\ celestialBodies[j].velocity # ZeroVec
          /\ celestialBodies[j].velocity # AsSeedBody(celestialBodies[j].id).velocity

---------------------------------------------------------------------------
(* C25: when createSpaceship() returns, every mesh of the returned hierarchy
   has userData.parentShip equal to the returned root and userData.name
   equal to the root's own userData.name, "Spaceship". *)
C25_MeshesNamedAfterShip ==
    ship # <<>> =>
        /\ ship[1].meshUserData.parentShip = ship[1].id
        /\ ship[1].meshUserData.name = ship[1].userData.name
        /\ ship[1].meshUserData.name = <<"Spaceship">>

---------------------------------------------------------------------------
(* C26: in every reachable state of the ship application, when
   generateNewSpaceship() has returned, edit mode is off:
   SolarSystemSimulation.isEditMode is false. *)
C26_GenerateLeavesEditMode ==
    lastOp = "generateNewSpaceship" => ~app.isEditMode

(* C27: ship navigation mode and edit mode are never on together, whatever
   the order of R and P key presses, pointer clicks and animation frames. *)
C27_ModesExclusive ==
    ~(app.shipNavigationModeActive /\ app.isEditMode)

(* C28: a pointerdown event runs onPointerDown at most once when ship
   navigation mode is off; when it is on, it runs it never and the camera
   focus stays where it was. *)
C28_PointerDownGated ==
    [][lastOp' = "pointerdown" =>
         IF app.shipNavigationModeActive
         THEN app'.onPointerDownCalls = 0 /\ app'.targetObject = app.targetObject
         ELSE app'.onPointerDownCalls <= 1]_vars

---------------------------------------------------------------------------
\* the particles of the pool that are active
ActiveParticles(particles) == {i \in 1..Len(particles) : particles[i].isActive}

\* a call of createFlare changes at most one particle, and only from
\* inactive to active and aged zero; on a pool with no inactive particle it
\* changes nothing
CreateFlareStep ==
    lastOp' = "createFlare" =>
        /\ \A i \in 1..PoolSize :
               pool'[i] # pool[i] =>
                   ~pool[i].isActive /\ pool'[i].isActive /\ pool'[i].age = 0
        /\ Cardinality(ActiveParticles(pool')) <= Cardinality(ActiveParticles(pool)) + 1
        /\ ActiveParticles(pool) = 1..PoolSize => pool' = pool /\ particleOpacity' = particleOpacity

(* C29: the active particles never outnumber the pool, a sprite is visible
   exactly when its particle is active, createFlare activates only a
   particle that was inactive, and createFlare on a pool with no inactive
   particle changes nothing. *)
C29_PoolNeverOverflows ==
    /\ [](Len(pool) = PoolSize /\ Cardinality(ActiveParticles(pool)) <= PoolSize)
    /\ [](\A i \in 1..PoolSize : pool[i].visible <=> pool[i].isActive)
    /\ [][CreateFlareStep]_vars

\* createFlare has just returned from a pool whose particles were all
\* active and already aged
C29_Witness ==
    /\ lastOp = "createFlare"
    /\ \A i \in 1..PoolSize : pool[i].isActive /\ pool[i].age > 0

\* an update with a positive delta ages every active particle by delta and
\* retires exactly those whose age has reached their lifetime; nothing but
\* an update retires a particle
AgeingStep ==
    /\ lastOp' = "flareUpdate" /\ lastArg'[1] > 0 =>
           \A i \in ActiveParticles(pool) :
               /\ pool'[i].age = pool[i].age + lastArg'[1]
               /\ pool'[i].age > pool[i].age
               /\ pool'[i].isActive <=> pool'[i].age < pool'[i].lifetime
    /\ \A i \in ActiveParticles(pool) :
           ~pool'[i].isActive =>
               lastOp' = "flareUpdate" /\ pool'[i].age >= pool'[i].lifetime

(* C30: if update keeps being called with a positive delta, every particle
   createFlare activates is eventually deactivated: its age grows in each
   update and it is deactivated in the first update where its age has
   reached its lifetime, not before. *)
C30_FlaresExpire ==
    /\ \A i \in 1..PoolSize : pool[i].isActive ~> ~pool[i].isActive
    /\ [][AgeingStep]_vars

\* a flare that lived through more than one update has been retired
C30_Witness ==
    /\ lastOp = "flareUpdate"
    /\ \E i \in 1..PoolSize :
           /\ ~pool[i].isActive
           /\ pool[i].lifetime > 16
           /\ pool[i].age >= pool[i].lifetime

=============================================================================
